---- MODULE Spec2Model ----
(***************************************************************************)
(* Model of the Tuya power monitor: the token cache (getAccessToken), the  *)
(* request wrapper with its retry on an auth rejection (makeTuyaRequest),  *)
(* the device prober (getDeviceInfo, checkDeviceAvailability) and the      *)
(* POST /monitor cycle that fans the prober out over the configured        *)
(* devices and saves every result (savePowerStatus).                       *)
(*                                                                         *)
(* A run of the model is the process from its start through one POST        *)
(* /monitor cycle.                                                         *)
(*                                                                         *)
(* Node runs the program on one thread: the code between two awaits that   *)
(* wait for I/O (an axios call, a database call) runs without any other    *)
(* I/O callback in between.  One action of the model is therefore one I/O  *)
(* completion together with everything the code does until it next waits   *)
(* for I/O.  Times are in milliseconds, as Date.now() gives them.          *)
(***************************************************************************)
EXTENDS Integers, Sequences, FiniteSets, TLC

VARIABLES
    accessToken,      \* module variable accessToken (NullToken when null)
    tokenExpiryTime,  \* module variable tokenExpiryTime (NullTime when null)
    expirySrc,        \* history: the token of the response that wrote tokenExpiryTime
    storedAt,         \* history: when the response that wrote accessToken was processed
    storedLifetime,   \* history: the expire_time that response reported
    now,              \* Date.now()
    DEVICE_IDS,       \* the configured devices, fixed when the process starts:
                      \* what JSON.parse made of the environment's DEVICE_IDS
    probes,           \* per device: the state of its task in the running cycle
    cycle,            \* "idle" | "running" (POST) | "runningGet" | "responded"
    summary,          \* the body POST /monitor answered with
    power_status,     \* the rows inserted, without their timestamps
    signCalls         \* SpecSign: the signRequest calls made, arguments and result

vars == <<accessToken, tokenExpiryTime, expirySrc, storedAt, storedLifetime, now,
          DEVICE_IDS, probes, cycle, summary, power_status, signCalls>>

cacheVars == <<accessToken, tokenExpiryTime, expirySrc, storedAt, storedLifetime>>

-----------------------------------------------------------------------------
(* Bounds of the model *)

MaxTicks == 1       \* clock advances in a run

(* Program constants *)

TokenTimeoutMs == 10000      \* axios timeout of the token request
RequestTimeoutMs == 15000    \* config.timeout of makeTuyaRequest
MAX_RETRIES == 1
SafetyMarginMs == 300000
DefaultExpireTimeS == 7200
StartTime == 1000000      \* Date.now() when the process starts; any value above the margin
TickMs == 100000          \* one clock advance

NullToken == 0            \* accessToken = null
NullTime == 0 - 1         \* tokenExpiryTime = null, responseTimeMs = null
NullStr == "<null>"       \* a null string (error: null)
Null == <<>>              \* null / undefined of a numeric field, as an empty option

(* DEVICE_IDS when the environment sets none: name and id of the two sockets *)
DefaultDevices == <<[name |-> "Socket 1", id |-> "bf3c70a960958bcf11ruml"],
                    [name |-> "Socket 2", id |-> "bfcbd371e1af7827f9sj79"]>>

(* DEVICE_IDS set by the environment to a single socket *)
OneDevice == <<[name |-> "Socket 1", id |-> "bf3c70a960958bcf11ruml"]>>

(* DEVICE_IDS an object with these entries, and DEVICE_IDS = null, which is   *)
(* what JSON.parse gives for the text "null"                                  *)
Configured(entries) == [isNull |-> FALSE, entries |-> entries]
NullDevices == [isNull |-> TRUE, entries |-> <<>>]

DeviceIdx == DOMAIN DEVICE_IDS.entries

(* getDevices(): the configured devices, in configuration order;              *)
(* Object.entries(null) throws a TypeError                                    *)
getDevicesThrows == DEVICE_IDS.isNull
getDevices ==
    [i \in DeviceIdx |-> [id |-> DEVICE_IDS.entries[i].id,
                          name |-> DEVICE_IDS.entries[i].name]]

-----------------------------------------------------------------------------
(* What the provider can answer *)

(* expire_time of a token response, in seconds; 0 is also what a missing field reads as *)
Lifetimes == {0, 300, 400, 7200}

AuthCodes == {1010, 1011}
RateLimitCode == 429
OtherCode == 2001

(* the result of a successful status response *)
StatusResults ==
    { [shape |-> "absent",   items |-> <<>>],
      [shape |-> "notArray", items |-> <<>>],
      [shape |-> "badElem",  items |-> <<>>],
      [shape |-> "array",    items |-> <<>>],
      [shape |-> "array",    items |-> <<[code |-> "cur_power", value |-> 235],
                                         [code |-> "cur_voltage", value |-> 2300]>>],
      [shape |-> "array",    items |-> <<[code |-> "cur_power", value |-> 0]>>],
      [shape |-> "array",    items |-> <<[code |-> "cur_power", value |-> 0],
                                         [code |-> "cur_power_1", value |-> 50],
                                         [code |-> "cur_voltage", value |-> 0]>>] }

(* the result of a successful metadata response: deviceInfo, with its online   *)
(* field true, false, missing or not a boolean (the string 'false'), or no    *)
(* result at all                                                              *)
DeviceInfos ==
    {"online:true", "online:false", "online:missing", "online:nonbool", "undefined"}
MetaResult(info) == [shape |-> info, items |-> <<>>]

(* A response axios resolves with.  data = FALSE stands for an empty body. *)
OkResponse(result) ==
    [data |-> TRUE, success |-> TRUE, code |-> 0, msg |-> NullStr, result |-> result]
Envelope(code, msg) ==
    [data |-> TRUE, success |-> FALSE, code |-> code, msg |-> msg,
     result |-> [shape |-> "absent", items |-> <<>>]]
EmptyResponse ==
    [data |-> FALSE, success |-> FALSE, code |-> 0, msg |-> NullStr,
     result |-> [shape |-> "absent", items |-> <<>>]]

Envelopes ==
    { Envelope(1010, "token invalid"), Envelope(1011, "token expired"),
      Envelope(RateLimitCode, "rate limited"), Envelope(OtherCode, "device is offline"),
      Envelope(OtherCode, "") }

(* An error axios rejects with: error.code, error.message and, for an HTTP    *)
(* error status, error.response.data.code (0 when the body has none,          *)
(* hasResponse FALSE for a network error).                                    *)
HttpError(code) ==
    [code |-> "ERR_BAD_REQUEST", message |-> "Request failed with status code",
     hasResponse |-> TRUE, respCode |-> code]
NetError(code, message) ==
    [code |-> code, message |-> message, hasResponse |-> FALSE, respCode |-> 0]

RequestErrors ==
    { HttpError(1010), HttpError(1011), HttpError(RateLimitCode), HttpError(0),
      NetError("ECONNABORTED", "timeout of 15000ms exceeded"),
      NetError("ENOTFOUND", "getaddrinfo ENOTFOUND"),
      NetError("ECONNREFUSED", "connect ECONNREFUSED"),
      NetError("ECONNRESET", "socket hang up") }

(* new Error(message): an error with no code and no response *)
PlainError(message) == NetError("", message)

-----------------------------------------------------------------------------
(* JavaScript truthiness of the values the code tests *)

TruthyToken(tok) == tok # NullToken
TruthyTime(t) == t # NullTime /\ t # 0
TruthyStr(s) == s # NullStr /\ s # ""
TruthyNum(opt) == opt # Null /\ opt[1] # 0

-----------------------------------------------------------------------------
(* The token cache: the module variables of tuya.js with their history.       *)
(* A record g holds them while an action computes its successor state.        *)

Cache(tok, exp, src, at, life) ==
    [accessToken |-> tok, tokenExpiryTime |-> exp, expirySrc |-> src,
     storedAt |-> at, storedLifetime |-> life]

(* let accessToken = null; let tokenExpiryTime = null *)
EmptyCache == Cache(NullToken, NullTime, NullToken, 0, 0)

(* a cache check that leaves the expired token in accessToken *)
getAccessTokenCall_keepsExpired(g, t, forceRefresh) ==
    IF TruthyToken(g.accessToken) /\ ~forceRefresh
    THEN IF TruthyTime(g.tokenExpiryTime) /\ t < g.tokenExpiryTime
         THEN [g |-> g, fetch |-> FALSE, ret |-> g.accessToken]
         ELSE [g |-> g, fetch |-> TRUE, ret |-> NullToken]
    ELSE [g |-> g, fetch |-> TRUE, ret |-> NullToken]

(* getAccessToken, from its call to its first await: the cached token is      *)
(* returned, or a token request is sent (fetch).                              *)
getAccessTokenCall(g, t, forceRefresh) ==
    IF TruthyToken(g.accessToken) /\ ~forceRefresh
    THEN IF TruthyTime(g.tokenExpiryTime) /\ t < g.tokenExpiryTime
         THEN [g |-> g, fetch |-> FALSE, ret |-> g.accessToken]
         ELSE [g |-> [g EXCEPT !.accessToken = NullToken], fetch |-> TRUE, ret |-> NullToken]
    ELSE [g |-> g, fetch |-> TRUE, ret |-> NullToken]

(* expiresIn = (expire_time || 7200) * 1000 *)
expiresIn(expire_time) ==
    (IF expire_time # 0 THEN expire_time ELSE DefaultExpireTimeS) * 1000

(* a success branch that stores the token and leaves the expiry as it was *)
getAccessTokenSuccess_tokenOnly(g, t, access_token, expire_time) ==
    [g EXCEPT !.accessToken = access_token, !.storedAt = t,
              !.storedLifetime = expire_time]

(* getAccessToken on a successful token response {access_token, expire_time}  *)
(* processed at time t                                                        *)
getAccessTokenSuccess(g, t, access_token, expire_time) ==
    [g EXCEPT !.accessToken = access_token,
              !.tokenExpiryTime = t + expiresIn(expire_time) - SafetyMarginMs,
              !.expirySrc = access_token,
              !.storedAt = t,
              !.storedLifetime = expire_time]

(* a catch that rethrows without clearing the cache *)
getAccessTokenFailure_keepsCache(g) == g

(* getAccessToken's catch: the cache is cleared before the error is rethrown *)
getAccessTokenFailure(g) ==
    [g EXCEPT !.accessToken = NullToken, !.tokenExpiryTime = NullTime,
              !.expirySrc = NullToken]

(* the error getAccessToken rejects with *)
TokenFetchError == PlainError("Could not get access token")

(* makeTuyaRequest on an auth rejection: accessToken = null; tokenExpiryTime = null *)
invalidate(g) ==
    [g EXCEPT !.accessToken = NullToken, !.tokenExpiryTime = NullTime,
              !.expirySrc = NullToken]

(* the ways a token request fails; every one ends in getAccessToken's catch *)
TokenFailures == {"network", "timeout", "envelope", "http", "malformed"}

-----------------------------------------------------------------------------
(* signRequest.  A text is the sequence of its pieces; concatenation is \o.   *)
(* The two hashes are kept symbolic: a hash is the pair of its key and the    *)
(* text it was computed over, so that two signatures are equal exactly when   *)
(* they were computed with the same key over the same text.                   *)

ACCESS_ID == "TUYA_ACCESS_ID"      \* process.env.TUYA_ACCESS_ID
ACCESS_KEY == "TUYA_ACCESS_KEY"    \* process.env.TUYA_ACCESS_KEY

(* n.toString() of a non-negative integer: its decimal digits *)
DigitChars == <<"0", "1", "2", "3", "4", "5", "6", "7", "8", "9">>
RECURSIVE Digits(_)
Digits(n) ==
    IF n < 10 THEN <<DigitChars[n + 1]>>
    ELSE Digits(n \div 10) \o <<DigitChars[(n % 10) + 1]>>

(* the text of a token: the provider's tokens are named 1, 2, ... here *)
TokenStr(token) == IF TruthyToken(token) THEN Digits(token) ELSE <<>>

(* crypto.createHash('sha256').update(bodyStr).digest('hex').toLowerCase() *)
Sha256Hex(bodyStr) == <<"sha256(", bodyStr, ")">>

(* crypto.createHmac('sha256', key).update(text).digest('hex').toUpperCase() *)
HmacSha256Hex(key, text) == [key |-> key, text |-> text]

(* A query is the sequence of its entries in insertion order, an entry the    *)
(* pair <<key, value>> of two texts.                                          *)

(* the characters of the keys and values compared by sort(), in the order of  *)
(* their UTF-16 code units                                                    *)
CharOrder == <<"&", ",", "1", "2", "=", "a", "b">>
CharCode(c) == CHOOSE n \in DOMAIN CharOrder : CharOrder[n] = c

(* a < b as strings *)
RECURSIVE TextLess(_, _)
TextLess(a, b) ==
    IF b = <<>> THEN FALSE
    ELSE IF a = <<>> THEN TRUE
    ELSE IF a[1] = b[1] THEN TextLess(Tail(a), Tail(b))
    ELSE CharCode(a[1]) < CharCode(b[1])

(* String(entry), what sort() without a comparator compares: "key,value" *)
entryString(entry) == entry[1] \o <<",">> \o entry[2]

(* entries.sort(): the entries in ascending order of their strings *)
RECURSIVE sortInsert(_, _)
sortInsert(entry, sorted) ==
    IF sorted = <<>> THEN <<entry>>
    ELSE IF TextLess(entryString(entry), entryString(sorted[1]))
    THEN <<entry>> \o sorted
    ELSE <<sorted[1]>> \o sortInsert(entry, Tail(sorted))

RECURSIVE sort(_)
sort(entries) ==
    IF entries = <<>> THEN <<>>
    ELSE sortInsert(entries[Len(entries)], sort(SubSeq(entries, 1, Len(entries) - 1)))

(* entries.map(v => v.join('=')).join('&') *)
RECURSIVE joinEntries(_)
joinEntries(entries) ==
    IF entries = <<>> THEN <<>>
    ELSE entries[1][1] \o <<"=">> \o entries[1][2] \o
         (IF Len(entries) > 1 THEN <<"&">> \o joinEntries(Tail(entries)) ELSE <<>>)

(* Object.entries(query).sort().map(v => v.join('=')).join('&') *)
querySorted(query) == joinEntries(sort(query))

NoQuery == <<>>                                  \* {}
TokenQuery == << << <<"grant_type">>, <<"1">> >> >>  \* { grant_type: 1 }
EmptyBody == "{}"                       \* JSON.stringify({})
TokenPath == <<"/v1.0/token">>
DevicePath(deviceId) == <<"/v1.0/devices/", deviceId>>
StatusPath(deviceId) == <<"/v1.0/devices/", deviceId, "/status">>

(* a string to sign that leaves the method out *)
stringToSign_noMethod(path, method, query, body) ==
    LET bodyStr == IF method \in {"POST", "PUT"} THEN body ELSE ""
        contentHash == Sha256Hex(bodyStr)
        urlForSign == IF querySorted(query) # <<>>
                      THEN path \o <<"?">> \o querySorted(query) ELSE path
    IN  <<"\n">> \o contentHash \o <<"\n", "\n">> \o urlForSign

stringToSign(path, method, query, body) ==
    LET bodyStr == IF method \in {"POST", "PUT"} THEN body ELSE ""
        contentHash == Sha256Hex(bodyStr)
        urlForSign == IF querySorted(query) # <<>>
                      THEN path \o <<"?">> \o querySorted(query) ELSE path
    IN  <<method, "\n">> \o contentHash \o <<"\n", "\n">> \o urlForSign

(* signRequest(path, method, query, body, token) called at time t with the    *)
(* module variables g: signStr takes token || accessToken || ''              *)
signRequest(g, path, method, query, body, token, t) ==
    LET used == IF TruthyToken(token) THEN token ELSE g.accessToken
        signStr == <<ACCESS_ID>> \o TokenStr(used) \o Digits(t) \o
                   stringToSign(path, method, query, body)
    IN  [t |-> t, sign |-> HmacSha256Hex(ACCESS_KEY, signStr)]

NoSign == [t |-> 0, sign |-> HmacSha256Hex("", <<>>)]

-----------------------------------------------------------------------------
(* One device's task of a POST /monitor cycle *)

NoObservation ==
    [isOnline |-> FALSE, responseTimeMs |-> NullTime, powerConsumptionW |-> Null,
     voltageV |-> Null, error |-> NullStr, deviceId |-> "", deviceName |-> ""]

NoSave ==
    [deviceId |-> "", deviceName |-> "", isOnline |-> FALSE, responseTimeMs |-> NullTime,
     powerConsumptionW |-> Null, errorMessage |-> NullStr]

(* how the last status call failed: an axios error with its code and message, *)
(* a success=false envelope with its code and msg, or a response without body *)
NoFailure == [kind |-> "none", code |-> "", envCode |-> 0, msg |-> NullStr]

IdleProbe ==
    [pc |-> "idle",            \* idle | tokenWait | reqWait | saveWait | done
     handler |-> "POST",       \* the handler that called checkDeviceAvailability
     deviceId |-> "",          \* checkDeviceAvailability's deviceId
     signed |-> NoSign,        \* {t, sign} of the request in flight
     phase |-> "meta",         \* the request in progress: meta | status
     retryCount |-> 0,         \* makeTuyaRequest's retryCount
     token |-> NullToken,      \* makeTuyaRequest's local token
     startTime |-> 0,          \* checkDeviceAvailability's startTime
     deviceInfo |-> "null",    \* what getDeviceInfo returned
     settled |-> "pending",    \* checkDeviceAvailability: pending | resolved | rejected
     result |-> NoObservation, \* the task's result
     saveArgs |-> NoSave,      \* the arguments of the task's savePowerStatus call
     saveThrew |-> FALSE,      \* whether that call threw
     saveCalls |-> 0,          \* savePowerStatus calls the task made
     \* history of the probe
     statusCalls |-> 0,        \* status requests sent
     statusResps |-> <<>>,     \* how each was answered, in order:
                               \* ok | malformed | auth | rate | other
     statusTokenFailed |-> FALSE,  \* a token request made for the status request failed
     metaTokenFailed |-> FALSE,    \* a token request made for the metadata request failed
                               \* (see CountsTokenRequests)
     statusResult |-> [shape |-> "absent", items |-> <<>>],
                               \* response.data.result of the last successful status response
     statusFailure |-> NoFailure,  \* how the last status call failed, if it did
     metaCalls |-> 0,          \* metadata requests sent (see CountsTokenRequests)
     timeoutMs |-> [token |-> 0, meta |-> 0, status |-> 0],
                               \* the axios timeout of the last request of each kind,
                               \* 0 before one is sent (see CountsTokenRequests)
     statusStartTime |-> 0,    \* Date.now() when makeTuyaRequest was called for the status
     statusEndTime |-> 0,      \* Date.now() when it returned a success response
     tokenReqs |-> [meta |-> 0, status |-> 0]]  \* token requests sent for the metadata
                               \* and for the status request (see CountsTokenRequests)

St(g, p) == [g |-> g, p |-> p]

(* The counts of token and metadata requests, the timeouts the requests were  *)
(* sent with and the failure of a token request made for the metadata are     *)
(* history kept where one probe's calls are examined, in the configurations   *)
(* with a single socket; they have no influence on what the program does.     *)
CountsTokenRequests == Len(DEVICE_IDS.entries) = 1

(* a makeTuyaRequest that gives the metadata request the token request's      *)
(* timeout                                                                    *)
sendRequest_shortMetadata(g, p, token, t) ==
    St(g, [p EXCEPT !.pc = "reqWait",
                    !.token = token,
                    !.signed = signRequest(g,
                        IF p.phase = "meta" THEN DevicePath(p.deviceId)
                        ELSE StatusPath(p.deviceId),
                        "GET", NoQuery, EmptyBody, token, t),
                    !.statusCalls = IF p.phase = "status" THEN @ + 1 ELSE @,
                    !.metaCalls = IF CountsTokenRequests /\ p.phase = "meta"
                                  THEN @ + 1 ELSE @,
                    !.timeoutMs[p.phase] =
                        IF ~CountsTokenRequests THEN @
                        ELSE IF p.phase = "meta" THEN TokenTimeoutMs
                        ELSE RequestTimeoutMs])

(* makeTuyaRequest after `await getAccessToken()` gave token: the request is   *)
(* signed with it and sent with config.timeout.                               *)
sendRequest(g, p, token, t) ==
    St(g, [p EXCEPT !.pc = "reqWait",
                    !.token = token,
                    !.signed = signRequest(g,
                        IF p.phase = "meta" THEN DevicePath(p.deviceId)
                        ELSE StatusPath(p.deviceId),
                        "GET", NoQuery, EmptyBody, token, t),
                    !.statusCalls = IF p.phase = "status" THEN @ + 1 ELSE @,
                    !.metaCalls = IF CountsTokenRequests /\ p.phase = "meta"
                                  THEN @ + 1 ELSE @,
                    !.timeoutMs[p.phase] =
                        IF CountsTokenRequests THEN RequestTimeoutMs ELSE @])

(* makeTuyaRequest(path, 'GET', {}, {}, retryCount), up to its first wait for I/O *)
makeTuyaRequest(g, p, t, phase, retryCount) ==
    LET e == getAccessTokenCall(g, t, FALSE)
        p1 == [p EXCEPT !.phase = phase, !.retryCount = retryCount,
                        !.statusStartTime =
                            IF phase = "status" /\ retryCount = 0 THEN t ELSE @]
    IN  IF e.fetch
        THEN St(e.g, [p1 EXCEPT !.pc = "tokenWait",
                                !.signed = signRequest(e.g, TokenPath, "GET",
                                    TokenQuery, EmptyBody, NullToken, t),
                                !.tokenReqs[phase] =
                                    IF CountsTokenRequests THEN @ + 1 ELSE @,
                                !.timeoutMs.token =
                                    IF CountsTokenRequests THEN TokenTimeoutMs ELSE @])
        ELSE sendRequest(e.g, p1, e.ret, t)

-----------------------------------------------------------------------------
(* checkDeviceAvailability: how a status response becomes an Observation *)

(* statusMap[code] after the reduce: the value of the last pair with that code *)
RECURSIVE statusMapGet(_, _)
statusMapGet(items, code) ==
    IF items = <<>> THEN Null
    ELSE IF items[Len(items)].code = code THEN <<items[Len(items)].value>>
    ELSE statusMapGet(SubSeq(items, 1, Len(items) - 1), code)

(* a || b for telemetry values *)
OrElse(a, b) == IF TruthyNum(a) THEN a ELSE b

(* value / 10, as the fraction <<numerator, denominator>> *)
Div10(opt) == IF opt # Null THEN <<opt[1], 10>> ELSE Null

(* powerValue = statusMap['cur_power'] || statusMap['cur_power_1'] || statusMap['power'] || null *)
powerValue(items) ==
    LET v == OrElse(statusMapGet(items, "cur_power"),
                    OrElse(statusMapGet(items, "cur_power_1"), statusMapGet(items, "power")))
    IN  IF TruthyNum(v) THEN v ELSE Null

(* voltageValue = statusMap['cur_voltage'] || null *)
voltageValue(items) ==
    LET v == statusMapGet(items, "cur_voltage") IN IF TruthyNum(v) THEN v ELSE Null

(* an online flag that takes every falsy or absent online field for offline   *)
isActuallyOnline_truthyOnly(deviceInfo) ==
    deviceInfo \in {"online:true", "online:nonbool"}

(* isActuallyOnline from deviceInfo?.online: false only for an explicit false *)
isActuallyOnline(deviceInfo) == deviceInfo # "online:false"

Resolved(obs) == [settled |-> "resolved", value |-> obs, error |-> PlainError("")]
Rejected(err) == [settled |-> "rejected", value |-> NoObservation, error |-> err]

(* an error Observation that reports a response time all the same *)
ErrorObservation_timed(device, errorMessage) ==
    [isOnline |-> FALSE, responseTimeMs |-> 0, powerConsumptionW |-> Null,
     voltageV |-> Null, error |-> errorMessage,
     deviceId |-> device.id, deviceName |-> device.name]

(* the Observation of the catch block and of the error-envelope branch *)
ErrorObservation(device, errorMessage) ==
    [isOnline |-> FALSE, responseTimeMs |-> NullTime, powerConsumptionW |-> Null,
     voltageV |-> Null, error |-> errorMessage,
     deviceId |-> device.id, deviceName |-> device.name]

(* a catch block that lets the error escape *)
checkDeviceAvailabilityCatch_rethrows(device, err) == Rejected(err)

(* a catch block that reports error.message whatever the error's code *)
checkDeviceAvailabilityCatch_rawMessage(device, err) ==
    Resolved(ErrorObservation(device, err.message))

(* checkDeviceAvailability's catch block *)
checkDeviceAvailabilityCatch(device, err) ==
    Resolved(ErrorObservation(device,
        IF err.code = "ECONNABORTED" THEN "Timeout"
        ELSE IF err.code \in {"ENOTFOUND", "ECONNREFUSED"} THEN "Connection error"
        ELSE err.message))

(* the Observation of a status response with success = true *)
SuccessObservation(device, deviceInfo, responseTime, items) ==
    [isOnline |-> isActuallyOnline(deviceInfo),
     responseTimeMs |-> responseTime,
     powerConsumptionW |-> Div10(powerValue(items)),
     voltageV |-> Div10(voltageValue(items)),
     error |-> NullStr,
     deviceId |-> device.id, deviceName |-> device.name]

(* an error branch that reports the provider's msg as it came, without the   *)
(* 'Unknown API error' default                                                *)
checkDeviceAvailabilityOnResponse_rawMsg(device, p, t, response) ==
    IF response.data /\ response.success
    THEN Resolved(SuccessObservation(device, p.deviceInfo, t - p.startTime,
             IF response.result.shape = "array" THEN response.result.items ELSE <<>>))
    ELSE Resolved(ErrorObservation(device, response.msg))

(* checkDeviceAvailability once makeTuyaRequest returned the status response *)
checkDeviceAvailabilityOnResponse(device, p, t, response) ==
    IF response.data /\ response.success
    THEN IF response.result.shape = "badElem"
         \* destructuring a null element throws a TypeError inside the try block
         THEN checkDeviceAvailabilityCatch(device,
                  PlainError("Cannot destructure property 'code'"))
         ELSE Resolved(SuccessObservation(device, p.deviceInfo, t - p.startTime,
                  IF response.result.shape = "array" THEN response.result.items ELSE <<>>))
    ELSE Resolved(ErrorObservation(device,
             IF response.data /\ TruthyStr(response.msg)
             THEN response.msg ELSE "Unknown API error"))

-----------------------------------------------------------------------------
(* The POST /monitor task of one device, once its probe settled *)

(* the probe's power value saved whatever isOnline says *)
powerConsumptionToSave_asProbed(result) == result.powerConsumptionW

(* powerConsumptionToSave = result.isOnline ? result.powerConsumptionW : null *)
powerConsumptionToSave(result) ==
    IF result.isOnline THEN result.powerConsumptionW ELSE Null

(* a GET handler that saves like the POST handler's task *)
taskOnProbeSettled_alwaysSaves(device, g, p, outcome) ==
    LET result == IF outcome.settled = "resolved" THEN outcome.value
                  ELSE ErrorObservation(device, outcome.error.message)
        args == [deviceId |-> result.deviceId, deviceName |-> result.deviceName,
                 isOnline |-> result.isOnline,
                 responseTimeMs |-> result.responseTimeMs,
                 powerConsumptionW |-> powerConsumptionToSave(result),
                 errorMessage |-> result.error]
    IN  St(g, [p EXCEPT !.pc = "saveWait", !.settled = outcome.settled,
                        !.result = result, !.saveArgs = args,
                        !.saveCalls = @ + 1])

(* checkDeviceAvailability settled.  In the POST handler: the task from the   *)
(* end of `await tuya.checkDeviceAvailability(...)` to its                    *)
(* `await db.savePowerStatus(...)`, in the try block when the probe resolved, *)
(* in the catch block when it rejected.  In the GET handler: the promise is   *)
(* an element of Promise.all and nothing follows it.                          *)
taskOnProbeSettled(device, g, p, outcome) ==
    LET result == IF outcome.settled = "resolved" THEN outcome.value
                  ELSE ErrorObservation(device, outcome.error.message)
        args == IF outcome.settled = "resolved"
                THEN [deviceId |-> result.deviceId, deviceName |-> result.deviceName,
                      isOnline |-> result.isOnline,
                      responseTimeMs |-> result.responseTimeMs,
                      powerConsumptionW |-> powerConsumptionToSave(result),
                      errorMessage |-> result.error]
                ELSE [deviceId |-> device.id, deviceName |-> device.name,
                      isOnline |-> FALSE, responseTimeMs |-> NullTime,
                      powerConsumptionW |-> Null,
                      errorMessage |-> outcome.error.message]
    IN  IF p.handler = "GET"
        THEN St(g, [p EXCEPT !.pc = "done", !.settled = outcome.settled,
                             !.result = result])
        ELSE St(g, [p EXCEPT !.pc = "saveWait", !.settled = outcome.settled,
                             !.result = result, !.saveArgs = args,
                             !.saveCalls = @ + 1])

-----------------------------------------------------------------------------
(* The continuations of makeTuyaRequest's caller *)

(* a retry whose response is dropped: the caller of a retried request gets    *)
(* the auth rejection of the first attempt                                    *)
requestReturned_dropsRetry(device, g, p, t, response) ==
    LET returned == IF p.retryCount > 0 THEN Envelope(1010, "token invalid")
                    ELSE response
    IN  IF p.phase = "meta"
        THEN makeTuyaRequest(g,
                 [p EXCEPT !.deviceInfo = IF returned.data /\ returned.success
                                          THEN returned.result.shape ELSE "null"],
                 t, "status", 0)
        ELSE taskOnProbeSettled(device, g, p,
                 checkDeviceAvailabilityOnResponse(device, p, t, returned))

(* makeTuyaRequest returned `response` to getDeviceInfo (phase meta) or to     *)
(* checkDeviceAvailability (phase status)                                     *)
requestReturned(device, g, p, t, response) ==
    IF p.phase = "meta"
    THEN makeTuyaRequest(g,
             [p EXCEPT !.deviceInfo = IF response.data /\ response.success
                                      THEN response.result.shape ELSE "null"],
             t, "status", 0)
    ELSE taskOnProbeSettled(device, g, p,
             checkDeviceAvailabilityOnResponse(device, p, t, response))

(* a getDeviceInfo without its catch block: an error of the metadata request  *)
(* reaches checkDeviceAvailability's catch                                    *)
requestThrew_noMetaCatch(device, g, p, t, err) ==
    taskOnProbeSettled(device, g, p, checkDeviceAvailabilityCatch(device, err))

(* makeTuyaRequest rejected with err: getDeviceInfo's catch returns null,      *)
(* checkDeviceAvailability's catch builds the Observation                     *)
requestThrew(device, g, p, t, err) ==
    IF p.phase = "meta"
    THEN makeTuyaRequest(g, [p EXCEPT !.deviceInfo = "null"], t, "status", 0)
    ELSE taskOnProbeSettled(device, g, p, checkDeviceAvailabilityCatch(device, err))

(* a catch block that retries an HTTP auth rejection a second time *)
makeTuyaRequestCatch_retriesTwice(device, g, p, t, err) ==
    IF err.hasResponse /\ err.respCode \in AuthCodes /\ p.retryCount <= MAX_RETRIES
    THEN makeTuyaRequest(invalidate(g), p, t, p.phase, p.retryCount + 1)
    ELSE requestThrew(device, g, p, t, err)

(* makeTuyaRequest's catch block *)
makeTuyaRequestCatch(device, g, p, t, err) ==
    IF err.hasResponse /\ err.respCode \in AuthCodes /\ p.retryCount < MAX_RETRIES
    THEN makeTuyaRequest(invalidate(g), p, t, p.phase, p.retryCount + 1)
    ELSE requestThrew(device, g, p, t, err)

(* a retry test that is off by one: retryCount <= MAX_RETRIES *)
makeTuyaRequestOnResponse_offByOne(device, g, p, t, response) ==
    IF response.data /\ ~response.success
    THEN IF response.code \in AuthCodes /\ p.retryCount <= MAX_RETRIES
         THEN makeTuyaRequest(invalidate(g), p, t, p.phase, p.retryCount + 1)
         ELSE IF response.code = RateLimitCode
         THEN makeTuyaRequestCatch(device, g, p, t, PlainError("Rate limit exceeded"))
         ELSE requestReturned(device, g, p, t, response)
    ELSE requestReturned(device, g, p, t, response)

(* a wrapper that retries an auth rejection however often it has retried *)
makeTuyaRequestOnResponse_alwaysRetries(device, g, p, t, response) ==
    IF response.data /\ ~response.success
    THEN IF response.code \in AuthCodes
         THEN makeTuyaRequest(invalidate(g), p, t, p.phase, p.retryCount + 1)
         ELSE IF response.code = RateLimitCode
         THEN makeTuyaRequestCatch(device, g, p, t, PlainError("Rate limit exceeded"))
         ELSE requestReturned(device, g, p, t, response)
    ELSE requestReturned(device, g, p, t, response)

(* a wrapper that answers the rate-limit code like an auth rejection: it      *)
(* clears the cache and calls again                                           *)
makeTuyaRequestOnResponse_retriesRateLimit(device, g, p, t, response) ==
    IF response.data /\ ~response.success
    THEN IF response.code \in (AuthCodes \cup {RateLimitCode})
            /\ p.retryCount < MAX_RETRIES
         THEN makeTuyaRequest(invalidate(g), p, t, p.phase, p.retryCount + 1)
         ELSE IF response.code = RateLimitCode
         THEN makeTuyaRequestCatch(device, g, p, t, PlainError("Rate limit exceeded"))
         ELSE requestReturned(device, g, p, t, response)
    ELSE requestReturned(device, g, p, t, response)

(* a wrapper that retries an auth rejection without clearing the cache *)
makeTuyaRequestOnResponse_keepsCache(device, g, p, t, response) ==
    IF response.data /\ ~response.success
    THEN IF response.code \in AuthCodes /\ p.retryCount < MAX_RETRIES
         THEN makeTuyaRequest(g, p, t, p.phase, p.retryCount + 1)
         ELSE IF response.code = RateLimitCode
         THEN makeTuyaRequestCatch(device, g, p, t, PlainError("Rate limit exceeded"))
         ELSE requestReturned(device, g, p, t, response)
    ELSE requestReturned(device, g, p, t, response)

(* a wrapper that clears the cache on an auth rejection only when the cache   *)
(* still holds the token the rejected request was made with                   *)
makeTuyaRequestOnResponse_compareAndClear(device, g, p, t, response) ==
    IF response.data /\ ~response.success
    THEN IF response.code \in AuthCodes /\ p.retryCount < MAX_RETRIES
         THEN makeTuyaRequest(IF g.accessToken = p.token THEN invalidate(g) ELSE g,
                              p, t, p.phase, p.retryCount + 1)
         ELSE IF response.code = RateLimitCode
         THEN makeTuyaRequestCatch(device, g, p, t, PlainError("Rate limit exceeded"))
         ELSE requestReturned(device, g, p, t, response)
    ELSE requestReturned(device, g, p, t, response)

(* makeTuyaRequest once axios resolved with a response *)
makeTuyaRequestOnResponse(device, g, p, t, response) ==
    IF response.data /\ ~response.success
    THEN IF response.code \in AuthCodes /\ p.retryCount < MAX_RETRIES
         THEN makeTuyaRequest(invalidate(g), p, t, p.phase, p.retryCount + 1)
         ELSE IF response.code = RateLimitCode
         THEN makeTuyaRequestCatch(device, g, p, t, PlainError("Rate limit exceeded"))
         ELSE requestReturned(device, g, p, t, response)
    ELSE requestReturned(device, g, p, t, response)

-----------------------------------------------------------------------------
(* The state machine *)

G == Cache(accessToken, tokenExpiryTime, expirySrc, storedAt, storedLifetime)

(* the cache g becomes the next state's cache *)
CacheBecomes(g) ==
    /\ accessToken' = g.accessToken
    /\ tokenExpiryTime' = g.tokenExpiryTime
    /\ expirySrc' = g.expirySrc
    /\ storedAt' = g.storedAt
    /\ storedLifetime' = g.storedLifetime

(* the cache g and the task p of device i become the next state *)
Becomes(i, st) ==
    /\ CacheBecomes(st.g)
    /\ probes' = [probes EXCEPT ![i] = st.p]

NoSummary == [status |-> 0, success |-> FALSE, devicesChecked |-> 0, online |-> 0,
              offline |-> 0,
              results |-> <<>>]

(* res.status(500).json({success: false, ...}) *)
ErrorSummary == [NoSummary EXCEPT !.status = 500]

InitWith(deviceIds) ==
    /\ accessToken = EmptyCache.accessToken
    /\ tokenExpiryTime = EmptyCache.tokenExpiryTime
    /\ expirySrc = EmptyCache.expirySrc
    /\ storedAt = EmptyCache.storedAt
    /\ storedLifetime = EmptyCache.storedLifetime
    /\ now = StartTime
    /\ DEVICE_IDS = deviceIds
    /\ probes = [i \in DOMAIN deviceIds.entries |-> IdleProbe]
    /\ cycle = "idle"
    /\ summary = NoSummary
    /\ power_status = {}
    /\ signCalls = <<>>

(* devices.map(async (device) => ...): every task runs, in configuration      *)
(* order, up to its first wait for I/O                                        *)
RECURSIVE startTasks(_, _, _, _)
startTasks(g, ps, i, t) ==
    IF i > Len(ps) THEN [g |-> g, ps |-> ps]
    ELSE LET st == makeTuyaRequest(g,
                       [IdleProbe EXCEPT !.startTime = t, !.deviceId = getDevices[i].id,
                                         !.handler = ps[i].handler],
                       t, "meta", 0)
         IN  startTasks(st.g, [ps EXCEPT ![i] = st.p], i + 1, t)

(* POST /monitor arrives: getDevices() throws into the handler's catch, which *)
(* answers 500, or every device's task is started                             *)
PostMonitor ==
    /\ cycle = "idle"
    /\ IF getDevicesThrows
       THEN /\ cycle' = "responded"
            /\ summary' = ErrorSummary
            /\ UNCHANGED <<cacheVars, probes>>
       ELSE /\ LET r == startTasks(G, probes, 1, now)
               IN  /\ CacheBecomes(r.g)
                   /\ probes' = r.ps
            /\ cycle' = "running"
            /\ summary' = NoSummary
    /\ UNCHANGED <<now, DEVICE_IDS, signCalls, power_status>>

(* GET /monitor arrives: getDevices() throws into the handler's catch, which  *)
(* answers 500, or checkDeviceAvailability is called for every device         *)
GetMonitor ==
    /\ cycle = "idle"
    /\ IF getDevicesThrows
       THEN /\ cycle' = "responded"
            /\ summary' = ErrorSummary
            /\ UNCHANGED <<cacheVars, probes>>
       ELSE /\ LET r == startTasks(G, [i \in DeviceIdx |->
                                          [IdleProbe EXCEPT !.handler = "GET"]], 1, now)
               IN  /\ CacheBecomes(r.g)
                   /\ probes' = r.ps
            /\ cycle' = "runningGet"
            /\ summary' = NoSummary
    /\ UNCHANGED <<now, DEVICE_IDS, signCalls, power_status>>

(* The tokens some part of the state still refers to, and the token the       *)
(* provider issues next: one that is none of them.                            *)
TokensInUse ==
    {accessToken, expirySrc} \cup
    {probes[i].token : i \in DeviceIdx}

FreshToken == CHOOSE n \in 1..(Cardinality(TokensInUse) + 1) :
                  /\ n \notin TokensInUse
                  /\ \A m \in 1..(n - 1) : m \in TokensInUse

(* the token request of device i's task is answered with a token *)
TokenResponseOk(i, expire_time) ==
    /\ probes[i].pc = "tokenWait"
    /\ LET g == getAccessTokenSuccess(G, now, FreshToken, expire_time)
       IN  Becomes(i, sendRequest(g, probes[i], g.accessToken, now))
    /\ UNCHANGED <<now, DEVICE_IDS, signCalls, cycle, summary, power_status>>

(* a shared token request: its failure rejects the getAccessToken call of     *)
(* every task that waits for a token                                          *)
TokenResponseFail_failsAllWaiters(i, cause) ==
    /\ probes[i].pc = "tokenWait"
    /\ CacheBecomes(getAccessTokenFailure(G))
    /\ probes' = [j \in DeviceIdx |->
           IF probes[j].pc = "tokenWait"
           THEN makeTuyaRequestCatch(getDevices[j], getAccessTokenFailure(G),
                    [probes[j] EXCEPT !.statusTokenFailed = @ \/ probes[j].phase = "status",
                                      !.metaTokenFailed =
                                          @ \/ (CountsTokenRequests /\ probes[j].phase = "meta")],
                    now, TokenFetchError).p
           ELSE probes[j]]
    /\ UNCHANGED <<now, DEVICE_IDS, signCalls, cycle, summary, power_status>>

(* a getAccessToken that answers a failed token request with null instead of *)
(* throwing: the request is sent without a token                              *)
TokenResponseFail_returnsNull(i, cause) ==
    /\ probes[i].pc = "tokenWait"
    /\ Becomes(i, sendRequest(getAccessTokenFailure(G),
                      [probes[i] EXCEPT !.statusTokenFailed = @ \/ probes[i].phase = "status",
                                        !.metaTokenFailed =
                                          @ \/ (CountsTokenRequests /\ probes[i].phase = "meta")],
                      NullToken, now))
    /\ UNCHANGED <<now, DEVICE_IDS, signCalls, cycle, summary, power_status>>

(* the token request of device i's task fails *)
TokenResponseFail(i, cause) ==
    /\ probes[i].pc = "tokenWait"
    /\ Becomes(i, makeTuyaRequestCatch(getDevices[i], getAccessTokenFailure(G),
                      [probes[i] EXCEPT !.statusTokenFailed = @ \/ probes[i].phase = "status",
                                        !.metaTokenFailed =
                                          @ \/ (CountsTokenRequests /\ probes[i].phase = "meta")],
                      now, TokenFetchError))
    /\ UNCHANGED <<now, DEVICE_IDS, signCalls, cycle, summary, power_status>>

(* how a status call was answered, for the probe's history *)
ResponseKind(r) ==
    IF r.data /\ r.success
    THEN IF r.result.shape = "badElem" THEN "malformed" ELSE "ok"
    ELSE IF r.data /\ r.code \in AuthCodes THEN "auth"
    ELSE IF r.data /\ r.code = RateLimitCode THEN "rate" ELSE "other"

ErrorKind(r) ==
    IF r.hasResponse /\ r.respCode \in AuthCodes THEN "auth"
    ELSE IF r.hasResponse /\ r.respCode = RateLimitCode THEN "rate" ELSE "other"

Answered(p, kind) ==
    [p EXCEPT !.statusResps = IF p.phase = "status" THEN Append(@, kind) ELSE @]

Received(p, response, t) ==
    [Answered(p, ResponseKind(response)) EXCEPT
        !.statusResult = IF p.phase = "status" /\ response.data /\ response.success
                         THEN response.result ELSE @,
        !.statusEndTime = IF p.phase = "status" /\ response.data /\ response.success
                          THEN t ELSE @,
        !.statusFailure =
            IF p.phase # "status" THEN @
            ELSE IF response.data /\ response.success THEN NoFailure
            ELSE IF response.data
            THEN [kind |-> "envelope", code |-> "", envCode |-> response.code,
                  msg |-> response.msg]
            ELSE [kind |-> "empty", code |-> "", envCode |-> 0, msg |-> NullStr]]

Threw(p, err) ==
    [Answered(p, ErrorKind(err)) EXCEPT
        !.statusFailure =
            IF p.phase # "status" THEN @
            ELSE [kind |-> "error", code |-> err.code, envCode |-> err.respCode,
                  msg |-> err.message]]

(* everything the provider can answer a metadata or a status request with *)
ResponsesFor(phase) ==
    Envelopes \cup {EmptyResponse} \cup
    (IF phase = "meta" THEN {OkResponse(MetaResult(info)) : info \in DeviceInfos}
     ELSE {OkResponse(r) : r \in StatusResults})

(* the metadata or status request of device i's task is answered *)
RequestResponse(i, response) ==
    /\ probes[i].pc = "reqWait"
    /\ Becomes(i, makeTuyaRequestOnResponse(getDevices[i], G,
                      Received(probes[i], response, now), now, response))
    /\ UNCHANGED <<now, DEVICE_IDS, signCalls, cycle, summary, power_status>>

(* the metadata or status request of device i's task fails in axios *)
RequestError(i, err) ==
    /\ probes[i].pc = "reqWait"
    /\ Becomes(i, makeTuyaRequestCatch(getDevices[i], G,
                      Threw(probes[i], err), now, err))
    /\ UNCHANGED <<now, DEVICE_IDS, signCalls, cycle, summary, power_status>>

(* savePowerStatus: the row pool.execute inserts *)
savePowerStatus(deviceId, deviceName, isOnline, responseTimeMs, powerConsumptionW, errorMessage) ==
    [device_id |-> deviceId, device_name |-> deviceName,
     is_online |-> IF isOnline THEN 1 ELSE 0,
     response_time_ms |-> responseTimeMs,
     power_consumption_w |-> powerConsumptionW,
     error_message |-> errorMessage]

(* a sink write that inserts a row for every task, returned or not *)
SaveOk_writesAll(i) ==
    /\ probes[i].pc = "saveWait"
    /\ power_status' = power_status \cup
           {savePowerStatus(getDevices[j].id, getDevices[j].name,
                probes[j].saveArgs.isOnline, probes[j].saveArgs.responseTimeMs,
                probes[j].saveArgs.powerConsumptionW, probes[j].saveArgs.errorMessage) :
            j \in DeviceIdx}
    /\ probes' = [probes EXCEPT ![i].pc = "done"]
    /\ UNCHANGED <<cacheVars, now, DEVICE_IDS, signCalls, cycle, summary>>

(* the insert of device i's task succeeds; the task returns its result *)
SaveOk(i) ==
    /\ probes[i].pc = "saveWait"
    /\ LET a == probes[i].saveArgs
       IN  power_status' = power_status \cup
               {savePowerStatus(a.deviceId, a.deviceName, a.isOnline,
                    a.responseTimeMs, a.powerConsumptionW, a.errorMessage)}
    /\ probes' = [probes EXCEPT ![i].pc = "done"]
    /\ UNCHANGED <<cacheVars, now, DEVICE_IDS, signCalls, cycle, summary>>

(* a task that calls savePowerStatus once more when the insert throws *)
SaveThrow_savesAgain(i) ==
    /\ probes[i].pc = "saveWait"
    /\ probes' = [probes EXCEPT
           ![i].pc = IF probes[i].saveCalls < 2 THEN "saveWait" ELSE "done",
           ![i].saveThrew = TRUE,
           ![i].saveCalls = IF probes[i].saveCalls < 2 THEN @ + 1 ELSE @]
    /\ UNCHANGED <<cacheVars, now, DEVICE_IDS, signCalls, cycle, summary, power_status>>

(* a task that reports the device offline when the insert throws *)
SaveThrow_marksOffline(i) ==
    /\ probes[i].pc = "saveWait"
    /\ probes' = [probes EXCEPT ![i].pc = "done", ![i].saveThrew = TRUE,
                                ![i].result.isOnline = FALSE]
    /\ UNCHANGED <<cacheVars, now, DEVICE_IDS, signCalls, cycle, summary, power_status>>

(* the insert throws; the task logs it and returns its result all the same *)
SaveThrow(i) ==
    /\ probes[i].pc = "saveWait"
    /\ probes' = [probes EXCEPT ![i].pc = "done", ![i].saveThrew = TRUE]
    /\ UNCHANGED <<cacheVars, now, DEVICE_IDS, signCalls, cycle, summary, power_status>>

(* a count that takes every result for an online one *)
onlineCount_countsAll(results) == Len(results)

(* results.filter(r => r.isOnline).length *)
RECURSIVE onlineCount(_)
onlineCount(results) ==
    IF results = <<>> THEN 0
    ELSE (IF results[1].isOnline THEN 1 ELSE 0) + onlineCount(Tail(results))

(* a handler that answers once every probe has settled, saved or not *)
Respond_beforeSaves ==
    /\ cycle = "running"
    /\ \A i \in DeviceIdx : probes[i].pc \in {"saveWait", "done"}
    /\ LET results == [i \in DeviceIdx |-> probes[i].result]
       IN  summary' =
               [status |-> 200,
                success |-> TRUE,
                devicesChecked |-> Len(results),
                online |-> onlineCount(results),
                offline |-> Len(results) - onlineCount(results),
                results |-> [i \in DeviceIdx |->
                    [deviceId |-> results[i].deviceId,
                     deviceName |-> results[i].deviceName,
                     isOnline |-> results[i].isOnline,
                     responseTimeMs |-> results[i].responseTimeMs,
                     powerConsumptionW |-> results[i].powerConsumptionW]]]
    /\ cycle' = "responded"
    /\ UNCHANGED <<cacheVars, now, DEVICE_IDS, signCalls, probes, power_status>>

(* a handler that lists the results in the reverse of the configuration order *)
Respond_reversed ==
    /\ cycle = "running"
    /\ \A i \in DeviceIdx : probes[i].pc = "done"
    /\ LET results == [i \in DeviceIdx |-> probes[Len(probes) + 1 - i].result]
       IN  summary' =
               [status |-> 200,
                success |-> TRUE,
                devicesChecked |-> Len(results),
                online |-> onlineCount(results),
                offline |-> Len(results) - onlineCount(results),
                results |-> [i \in DeviceIdx |->
                    [deviceId |-> results[i].deviceId,
                     deviceName |-> results[i].deviceName,
                     isOnline |-> results[i].isOnline,
                     responseTimeMs |-> results[i].responseTimeMs,
                     powerConsumptionW |-> results[i].powerConsumptionW]]]
    /\ cycle' = "responded"
    /\ UNCHANGED <<cacheVars, now, DEVICE_IDS, signCalls, probes, power_status>>

(* Promise.all resolved: the handler counts and sends the summary *)
Respond ==
    /\ cycle = "running"
    /\ \A i \in DeviceIdx : probes[i].pc = "done"
    /\ LET results == [i \in DeviceIdx |-> probes[i].result]
       IN  summary' =
               [status |-> 200,
                success |-> TRUE,
                devicesChecked |-> Len(results),
                online |-> onlineCount(results),
                offline |-> Len(results) - onlineCount(results),
                results |-> [i \in DeviceIdx |->
                    [deviceId |-> results[i].deviceId,
                     deviceName |-> results[i].deviceName,
                     isOnline |-> results[i].isOnline,
                     responseTimeMs |-> results[i].responseTimeMs,
                     powerConsumptionW |-> results[i].powerConsumptionW]]]
    /\ cycle' = "responded"
    /\ UNCHANGED <<cacheVars, now, DEVICE_IDS, signCalls, probes, power_status>>

(* GET /monitor: Promise.all resolved, or rejected with a probe that threw;   *)
(* the handler sends the Observations as they are, without counts             *)
RespondGet ==
    /\ cycle = "runningGet"
    /\ \A i \in DeviceIdx : probes[i].pc = "done"
    /\ summary' =
           IF \E i \in DeviceIdx : probes[i].settled = "rejected"
           THEN ErrorSummary
           ELSE [status |-> 200, success |-> TRUE,
                 devicesChecked |-> 0, online |-> 0, offline |-> 0,
                 results |-> [i \in DeviceIdx |-> probes[i].result]]
    /\ cycle' = "responded"
    /\ UNCHANGED <<cacheVars, now, DEVICE_IDS, signCalls, probes, power_status>>

(* the response was sent: the server waits for the next request *)
NextRequest ==
    /\ cycle = "responded"
    /\ cycle' = "idle"
    /\ probes' = [i \in DeviceIdx |-> IdleProbe]
    /\ summary' = NoSummary
    /\ UNCHANGED <<cacheVars, now, DEVICE_IDS, signCalls, power_status>>

(* the clock advances *)
Tick ==
    /\ now < StartTime + MaxTicks * TickMs
    /\ now' = now + TickMs
    /\ UNCHANGED <<cacheVars, DEVICE_IDS, signCalls, probes, cycle, summary, power_status>>

-----------------------------------------------------------------------------
(* SpecProbe: one configured device, every answer the provider can give *)

InitProbe == InitWith(Configured(OneDevice))

NextProbe ==
    \/ PostMonitor
    \/ \E i \in DeviceIdx, expire_time \in Lifetimes : TokenResponseOk(i, expire_time)
    \/ \E i \in DeviceIdx, cause \in TokenFailures : TokenResponseFail(i, cause)
    \/ \E i \in DeviceIdx : \E response \in ResponsesFor(probes[i].phase) :
           RequestResponse(i, response)
    \/ \E i \in DeviceIdx, err \in RequestErrors : RequestError(i, err)
    \/ \E i \in DeviceIdx : SaveOk(i)
    \/ \E i \in DeviceIdx : SaveThrow(i)
    \/ Respond
    \/ Tick

SpecProbe == InitProbe /\ [][NextProbe]_vars

-----------------------------------------------------------------------------
(* Spec: the two default devices probed concurrently, with one answer of      *)
(* each kind the code tells apart.  The clock stands still during the cycle:  *)
(* a token reported to live 300 s is expired as soon as it is stored, one     *)
(* reported to live 7200 s stays valid.                                       *)

CycleLifetimes == {300, 7200}
CycleTokenFailures == {"network"}
CycleResponsesFor(phase) ==
    {Envelope(1010, "token invalid"), Envelope(RateLimitCode, "rate limited"),
     Envelope(OtherCode, "device is offline")} \cup
    (IF phase = "meta"
     THEN {OkResponse(MetaResult("online:true")), OkResponse(MetaResult("online:false"))}
     ELSE {OkResponse([shape |-> "array",
                       items |-> <<[code |-> "cur_power", value |-> 235],
                                   [code |-> "cur_voltage", value |-> 2300]>>])})
CycleRequestErrors == {NetError("ECONNABORTED", "timeout of 15000ms exceeded")}

Init == InitWith(Configured(DefaultDevices))

Next ==
    \/ PostMonitor
    \/ \E i \in DeviceIdx, expire_time \in CycleLifetimes : TokenResponseOk(i, expire_time)
    \/ \E i \in DeviceIdx, cause \in CycleTokenFailures : TokenResponseFail(i, cause)
    \/ \E i \in DeviceIdx : \E response \in CycleResponsesFor(probes[i].phase) :
           RequestResponse(i, response)
    \/ \E i \in DeviceIdx, err \in CycleRequestErrors : RequestError(i, err)
    \/ \E i \in DeviceIdx : SaveOk(i)
    \/ \E i \in DeviceIdx : SaveThrow(i)
    \/ Respond

Spec == Init /\ [][Next]_vars

-----------------------------------------------------------------------------
(* SpecGet: one configured device and a server that answers GET /monitor and  *)
(* POST /monitor requests one after the other, any number of them, with       *)
(* tokens that stay valid and a provider that answers with a success, with an *)
(* auth rejection or not at all.                                              *)

GetLifetimes == {7200}
GetResponsesFor(phase) ==
    {Envelope(1010, "token invalid")} \cup
    (IF phase = "meta"
     THEN {OkResponse(MetaResult("online:true"))}
     ELSE {OkResponse([shape |-> "array",
                       items |-> <<[code |-> "cur_power", value |-> 235]>>])})

NextGet ==
    \/ PostMonitor
    \/ GetMonitor
    \/ \E i \in DeviceIdx, expire_time \in GetLifetimes : TokenResponseOk(i, expire_time)
    \/ \E i \in DeviceIdx, cause \in CycleTokenFailures : TokenResponseFail(i, cause)
    \/ \E i \in DeviceIdx : \E response \in GetResponsesFor(probes[i].phase) :
           RequestResponse(i, response)
    \/ \E i \in DeviceIdx, err \in CycleRequestErrors : RequestError(i, err)
    \/ \E i \in DeviceIdx : SaveOk(i)
    \/ \E i \in DeviceIdx : SaveThrow(i)
    \/ Respond
    \/ RespondGet
    \/ NextRequest

SpecGet == InitProbe /\ [][NextGet]_vars

-----------------------------------------------------------------------------
(* SpecLegacy: src/tuya.js, the module without expiry tracking.  Its cache is *)
(* the variable accessToken alone; checkDeviceAvailability makes the status   *)
(* call directly, without metadata call and without retry.  The two default   *)
(* devices are probed by callers that call checkDeviceAvailability and        *)
(* resetToken whenever they like.                                             *)

legacyUnused ==
    <<tokenExpiryTime, expirySrc, storedAt, storedLifetime, now, DEVICE_IDS,
      signCalls, cycle, summary, power_status>>

LegacyResponses ==
    { Envelope(1010, "token invalid"), Envelope(OtherCode, "device is offline"),
      OkResponse([shape |-> "absent", items |-> <<>>]),
      OkResponse([shape |-> "array",
                  items |-> <<[code |-> "cur_power", value |-> 235]>>]) }
LegacyErrors == {NetError("ECONNABORTED", "timeout of 15000ms exceeded")}

(* the catch block of checkDeviceAvailability *)
legacyCatch(device, err) ==
    ErrorObservation(device,
        IF err.code = "ECONNABORTED" THEN "Timeout"
        ELSE IF err.code \in {"ENOTFOUND", "ECONNREFUSED"} THEN "Connection error"
        ELSE err.message)

(* checkDeviceAvailability once axios resolved with the status response:      *)
(* result.reduce throws unless result is a list of pairs                      *)
legacyOnResponse(device, responseTime, response) ==
    IF response.data /\ response.success
    THEN IF response.result.shape # "array"
         THEN legacyCatch(device, PlainError("Cannot read properties of undefined"))
         ELSE [isOnline |-> TRUE, responseTimeMs |-> responseTime,
               powerConsumptionW |->
                   LET v == statusMapGet(response.result.items, "cur_power")
                   IN  Div10(IF TruthyNum(v) THEN v ELSE Null),
               voltageV |-> Null, error |-> NullStr,
               deviceId |-> device.id, deviceName |-> device.name]
    ELSE ErrorObservation(device,
             IF response.data /\ TruthyStr(response.msg)
             THEN response.msg ELSE "Unknown API error")

(* the status request of checkDeviceAvailability, signed with token *)
legacySend(p, token, t) ==
    [p EXCEPT !.pc = "reqWait", !.phase = "status", !.token = token,
              !.signed = signRequest([accessToken |-> token], StatusPath(p.deviceId),
                                     "GET", NoQuery, EmptyBody, token, t),
              !.statusCalls = @ + 1]

(* checkDeviceAvailability(device i) is called: getAccessToken returns the    *)
(* cached token, or requests one when accessToken is falsy                    *)
LegacyCheck(i) ==
    /\ probes[i].pc \in {"idle", "done"}
    /\ LET p == [IdleProbe EXCEPT !.deviceId = getDevices[i].id, !.startTime = now]
       IN  probes' = [probes EXCEPT ![i] =
               IF TruthyToken(accessToken)
               THEN legacySend(p, accessToken, now)
               ELSE [p EXCEPT !.pc = "tokenWait", !.phase = "status",
                              !.tokenReqs.status = @ + 1,
                              !.signed = signRequest([accessToken |-> accessToken],
                                  TokenPath, "GET", TokenQuery, EmptyBody,
                                  NullToken, now)]]
    /\ accessToken' = accessToken
    /\ UNCHANGED legacyUnused

(* the token request of device i's call is answered with a token: it is       *)
(* stored and the status request is sent with it                              *)
LegacyTokenOk(i) ==
    /\ probes[i].pc = "tokenWait"
    /\ accessToken' = FreshToken
    /\ probes' = [probes EXCEPT ![i] = legacySend(probes[i], FreshToken, now)]
    /\ UNCHANGED legacyUnused

(* the token request of device i's call fails: getAccessToken rethrows and    *)
(* leaves the cache as it is                                                  *)
LegacyTokenFail(i) ==
    /\ probes[i].pc = "tokenWait"
    /\ accessToken' = accessToken
    /\ probes' = [probes EXCEPT ![i].pc = "done",
                                ![i].settled = "resolved",
                                ![i].statusTokenFailed = TRUE,
                                ![i].result = legacyCatch(getDevices[i], TokenFetchError)]
    /\ UNCHANGED legacyUnused

(* a status handler that empties the cache when the answer is an auth         *)
(* rejection                                                                  *)
LegacyStatusResponse_clearsOnAuth(i, response) ==
    /\ probes[i].pc = "reqWait"
    /\ accessToken' = IF response.data /\ ~response.success /\ response.code \in AuthCodes
                      THEN NullToken ELSE accessToken
    /\ probes' = [probes EXCEPT ![i] =
           [Answered(probes[i], ResponseKind(response)) EXCEPT
               !.pc = "done", !.settled = "resolved",
               !.result = legacyOnResponse(getDevices[i], now - probes[i].startTime,
                                           response)]]
    /\ UNCHANGED legacyUnused

(* the status request of device i's call is answered *)
LegacyStatusResponse(i, response) ==
    /\ probes[i].pc = "reqWait"
    /\ accessToken' = accessToken
    /\ probes' = [probes EXCEPT ![i] =
           [Answered(probes[i], ResponseKind(response)) EXCEPT
               !.pc = "done", !.settled = "resolved",
               !.result = legacyOnResponse(getDevices[i], now - probes[i].startTime,
                                           response)]]
    /\ UNCHANGED legacyUnused

(* the status request of device i's call fails in axios *)
LegacyStatusError(i, err) ==
    /\ probes[i].pc = "reqWait"
    /\ accessToken' = accessToken
    /\ probes' = [probes EXCEPT ![i] =
           [Answered(probes[i], ErrorKind(err)) EXCEPT
               !.pc = "done", !.settled = "resolved",
               !.result = legacyCatch(getDevices[i], err)]]
    /\ UNCHANGED legacyUnused

(* resetToken() *)
LegacyResetToken ==
    /\ accessToken' = NullToken
    /\ UNCHANGED probes
    /\ UNCHANGED legacyUnused

NextLegacy ==
    \/ \E i \in DeviceIdx : LegacyCheck(i)
    \/ \E i \in DeviceIdx : LegacyTokenOk(i)
    \/ \E i \in DeviceIdx : LegacyTokenFail(i)
    \/ \E i \in DeviceIdx, response \in LegacyResponses : LegacyStatusResponse(i, response)
    \/ \E i \in DeviceIdx, err \in LegacyErrors : LegacyStatusError(i, err)
    \/ LegacyResetToken

SpecLegacy == Init /\ [][NextLegacy]_vars

-----------------------------------------------------------------------------
(* SpecSign: signRequest called twice with arguments and timestamps drawn     *)
(* from small sets, while the process holds no token.                         *)

SignPaths == {TokenPath, StatusPath("bf3c70a960958bcf11ruml")}
SignMethods == {"GET", "POST", "PUT"}
SignQueries ==
    { NoQuery,
      << << <<"a">>, <<"1">> >> >>,                                \* {a: '1'}
      << << <<"a">>, <<"1">> >>, << <<"b">>, <<"2">> >> >>,        \* {a: '1', b: '2'}
      << << <<"b">>, <<"2">> >>, << <<"a">>, <<"1">> >> >>,        \* {b: '2', a: '1'}
      << << <<"a">>, <<"1", "&", "b", "=", "2">> >> >> }           \* {a: '1&b=2'}
SignBodies == {EmptyBody, "{\"a\":1}"}
SignTokens == {NullToken, 1, 2}
SignTimes == {StartTime, StartTime + TickMs}

SignArguments ==
    [path : SignPaths, method : SignMethods, query : SignQueries,
     body : SignBodies, token : SignTokens, t : SignTimes]

(* signRequest(in.path, in.method, in.query, in.body, in.token) at time in.t *)
CallSignRequest(in) ==
    /\ Len(signCalls) < 2
    /\ signCalls' = Append(signCalls,
           [in |-> in,
            out |-> signRequest(G, in.path, in.method, in.query, in.body,
                                in.token, in.t)])
    /\ UNCHANGED <<cacheVars, now, DEVICE_IDS, probes, cycle, summary, power_status>>

InitSign == InitWith(Configured(OneDevice))

NextSign == \E in \in SignArguments : CallSignRequest(in)

SpecSign == InitSign /\ [][NextSign]_vars

-----------------------------------------------------------------------------
(* SpecConfig: the cycle under each kind of device configuration: DEVICE_IDS  *)
(* null, an object without entries, and one socket.                           *)

Configurations == {NullDevices, Configured(<<>>), Configured(OneDevice)}

InitConfig == \E deviceIds \in Configurations : InitWith(deviceIds)

SpecConfig == InitConfig /\ [][Next]_vars

-----------------------------------------------------------------------------
(* Properties *)

(* the probe of device i has settled and its task is in or past its save *)
Settled(i) == probes[i].pc \in {"saveWait", "done"}

(* this step sends a metadata or status request of device i's task, that is, *)
(* getAccessToken returned a token to makeTuyaRequest in this step            *)
RequestSent(i) == probes'[i].pc = "reqWait" /\ probes'[i] # probes[i]

(* the first status response of device i's probe was an auth rejection *)
FirstStatusAuthRejected(i) ==
    Len(probes[i].statusResps) >= 1 /\ probes[i].statusResps[1] = "auth"

(* the second status response of device i's probe was an auth rejection *)
SecondStatusAuthRejected(i) ==
    Len(probes[i].statusResps) >= 2 /\ probes[i].statusResps[2] = "auth"

(* C1: checkDeviceAvailability never rejects: whatever the token request, the *)
(* metadata call and the status call answer, a probe that has settled has     *)
(* resolved to an Observation.                                                *)
C1_ProbeNeverRejects ==
    \A i \in DeviceIdx :
        /\ probes[i].settled # "rejected"
        /\ Settled(i) => probes[i].settled = "resolved"

(* C1 witness: a probe resolved although the status result list was malformed *)
(* and made the reduce throw.                                                 *)
C1_Witness ==
    \E i \in DeviceIdx :
        /\ Settled(i)
        /\ probes[i].settled = "resolved"
        /\ probes[i].result.error = "Cannot destructure property 'code'"

(* C2 as claimed: when the first status response is an auth rejection the     *)
(* probe ends with exactly two status calls made; when the second is an auth  *)
(* rejection too there is no third call and the Observation is offline with   *)
(* an error.                                                                  *)
C2_ExactlyOneRetry ==
    \A i \in DeviceIdx :
        /\ probes[i].statusCalls <= 2
        /\ (Settled(i) /\ FirstStatusAuthRejected(i)) =>
               /\ probes[i].statusCalls = 2
               /\ SecondStatusAuthRejected(i) =>
                      /\ ~probes[i].result.isOnline
                      /\ TruthyStr(probes[i].result.error)

(* C2 amended: after an auth-rejected first status response one further       *)
(* status call is made if the token request for the retry succeeds and none   *)
(* if it fails; there is never a third status call, and a second auth         *)
(* rejection, like a failed token request, ends the probe offline with an     *)
(* error.                                                                     *)
C2_OneRetryUnlessTokenFails ==
    \A i \in DeviceIdx :
        /\ probes[i].statusCalls <= 2
        /\ (Settled(i) /\ FirstStatusAuthRejected(i)) =>
               /\ probes[i].statusCalls = IF probes[i].statusTokenFailed THEN 1 ELSE 2
               /\ Len(probes[i].statusResps) = probes[i].statusCalls
               /\ (SecondStatusAuthRejected(i) \/ probes[i].statusTokenFailed) =>
                      /\ ~probes[i].result.isOnline
                      /\ TruthyStr(probes[i].result.error)

(* C2 witness: a probe that ended after two auth-rejected status calls *)
C2_Witness ==
    \E i \in DeviceIdx :
        /\ Settled(i)
        /\ FirstStatusAuthRejected(i)
        /\ SecondStatusAuthRejected(i)
        /\ probes[i].statusCalls = 2

(* C3 as claimed: an Observation with isOnline = false has no power and no    *)
(* voltage value.                                                             *)
C3_OfflineHasNoTelemetry ==
    \A i \in DeviceIdx :
        (Settled(i) /\ ~probes[i].result.isOnline) =>
            /\ probes[i].result.powerConsumptionW = Null
            /\ probes[i].result.voltageV = Null

(* C4: every savePowerStatus call of the cycle with isOnline = false passes   *)
(* powerConsumptionW = null, and no inserted row has is_online = 0 with a     *)
(* power value.                                                               *)
C4_OfflineSavedWithoutPower ==
    /\ \A i \in DeviceIdx :
           (Settled(i) /\ ~probes[i].saveArgs.isOnline) =>
               probes[i].saveArgs.powerConsumptionW = Null
    /\ \A row \in power_status :
           row.is_online = 0 => row.power_consumption_w = Null

(* C4 witness: the probe returned offline together with a power value, and    *)
(* the row of that device was inserted.                                       *)
C4_Witness ==
    \E i \in DeviceIdx :
        /\ probes[i].pc = "done"
        /\ ~probes[i].saveThrew
        /\ ~probes[i].result.isOnline
        /\ probes[i].result.powerConsumptionW # Null
        /\ \E row \in power_status :
               row.device_id = probes[i].result.deviceId /\ row.is_online = 0

(* C5 as claimed: an Observation is online without an error, or offline with  *)
(* a non-empty error.                                                         *)
C5_OnlineOrError ==
    \A i \in DeviceIdx :
        Settled(i) =>
            \/ probes[i].result.isOnline /\ probes[i].result.error = NullStr
            \/ ~probes[i].result.isOnline /\ TruthyStr(probes[i].result.error)

(* C5 amended: an Observation either has no error, and then the status call   *)
(* succeeded and isOnline is false only when the metadata said online:false,  *)
(* or it is offline with a non-empty error.                                   *)
C5_NoErrorOrOfflineWithError ==
    \A i \in DeviceIdx :
        Settled(i) =>
            \/ /\ probes[i].result.error = NullStr
               /\ probes[i].statusResps[Len(probes[i].statusResps)] = "ok"
               /\ probes[i].result.isOnline = (probes[i].deviceInfo # "online:false")
            \/ /\ ~probes[i].result.isOnline
               /\ TruthyStr(probes[i].result.error)

(* C5 witness: an error envelope without msg was reported with the default    *)
(* error text.                                                                *)
C5_Witness ==
    \E i \in DeviceIdx :
        /\ Settled(i)
        /\ ~probes[i].result.isOnline
        /\ probes[i].result.error = "Unknown API error"

(* the getAccessToken call that the step from the metadata request to the     *)
(* status request makes: it finds the cache as the state before the step has  *)
(* it                                                                         *)
StatusRequestStarts(i) ==
    /\ probes[i].pc = "reqWait"
    /\ probes[i].phase = "meta"
    /\ probes'[i].phase = "status"

(* C6 as claimed: a getAccessToken call that finds a token stored at storedAt *)
(* with reported lifetime storedLifetime returns it without a token request   *)
(* while now < storedAt + (storedLifetime - 300) s, and requests a new token  *)
(* from then on.                                                              *)
C6_CachedUntilLifetimeMinusMargin ==
    [][\A i \in DeviceIdx :
          (StatusRequestStarts(i) /\ TruthyToken(accessToken)) =>
              IF now < storedAt + (storedLifetime * 1000 - SafetyMarginMs)
              THEN /\ probes'[i].pc = "reqWait"
                   /\ probes'[i].token = accessToken
                   /\ UNCHANGED cacheVars
              ELSE probes'[i].pc = "tokenWait"]_vars

(* C7 as claimed: whenever getAccessToken returns a token, from the cache or  *)
(* straight from a fetch, now < tokenExpiryTime.                              *)
C7_ReturnedTokenNotExpired ==
    [][\A i \in DeviceIdx :
          RequestSent(i) => now < tokenExpiryTime']_vars

(* this step ends the token request of device i's task in getAccessToken's    *)
(* catch: the request it was made for is not sent                             *)
TokenRequestFailed(i) ==
    /\ probes[i].pc = "tokenWait"
    /\ \/ probes[i].phase = "meta" /\ probes'[i].phase = "status"
       \/ probes[i].phase = "status" /\ probes'[i].pc = "saveWait"

(* C8: a failed token request leaves the cache Empty and gives the caller a   *)
(* token-fetch error, never a token: the metadata request is given up         *)
(* (deviceInfo null), the status request ends the probe offline with that     *)
(* error.                                                                     *)
C8_FailedFetchEmptiesCache ==
    [][\A i \in DeviceIdx :
          TokenRequestFailed(i) =>
              /\ accessToken' = NullToken
              /\ tokenExpiryTime' = NullTime
              /\ probes'[i].statusCalls = probes[i].statusCalls
              /\ probes[i].phase = "meta" =>
                     /\ probes'[i].deviceInfo = "null"
                     /\ probes'[i].pc = "tokenWait"
              /\ probes[i].phase = "status" =>
                     /\ ~probes'[i].result.isOnline
                     /\ probes'[i].result.error = TokenFetchError.message]_vars

(* C8 witness: the metadata call succeeded with a stored token, that token    *)
(* had expired when the status request asked for it, and the token request    *)
(* made in its place failed: the probe ended on the token error with the      *)
(* cache Empty.                                                               *)
C8_Witness ==
    \E i \in DeviceIdx :
        /\ Settled(i)
        /\ probes[i].deviceInfo # "null"
        /\ probes[i].statusCalls = 0
        /\ probes[i].result.error = TokenFetchError.message
        /\ accessToken = NullToken
        /\ tokenExpiryTime = NullTime

(* C9 as claimed: at most one token request is in flight at any time *)
C9_AtMostOneTokenFetchInFlight ==
    Cardinality({i \in DeviceIdx : probes[i].pc = "tokenWait"}) <= 1

(* C10: the cache is never torn: a cached token comes with the expiry of the  *)
(* response that brought it, and a token returned to a caller is the cached   *)
(* token of that moment, with its own expiry.                                 *)
C10_TokenNeverTorn ==
    [][/\ TruthyToken(accessToken') =>
              /\ expirySrc' = accessToken'
              /\ tokenExpiryTime' =
                     storedAt' + expiresIn(storedLifetime') - SafetyMarginMs
       /\ \A i \in DeviceIdx :
              RequestSent(i) =>
                  /\ TruthyToken(probes'[i].token)
                  /\ probes'[i].token = accessToken'
                  /\ probes'[i].token = expirySrc']_vars

(* C10 witness: two token requests were in flight together and both were      *)
(* answered: each task holds the token of its own response and the cache      *)
(* holds the later one.                                                       *)
C10_Witness ==
    \E i, j \in DeviceIdx :
        /\ probes[i].pc = "reqWait" /\ probes[j].pc = "reqWait"
        /\ TruthyToken(probes[i].token) /\ TruthyToken(probes[j].token)
        /\ probes[i].token # probes[j].token
        /\ accessToken = probes[j].token
        /\ expirySrc = probes[j].token

(* C12: the summary of a POST /monitor cycle is sent only when every device's *)
(* task has finished its probe and its savePowerStatus call: while a task is  *)
(* still waiting for a token, for a request or for its insert, no summary has *)
(* been sent.                                                                 *)
C12_SummaryAfterEveryTask ==
    (cycle = "responded" \/ summary # NoSummary) =>
        \A i \in DeviceIdx :
            /\ probes[i].pc = "done"
            /\ probes[i].settled # "pending"

(* C12 witness: the summary was sent after two tasks of which one had its     *)
(* insert succeed and the other had it throw.                                 *)
C12_Witness ==
    /\ cycle = "responded"
    /\ \E i, j \in DeviceIdx :
           /\ probes[i].pc = "done" /\ probes[i].saveThrew
           /\ probes[j].pc = "done" /\ ~probes[j].saveThrew

(* the isOnline the probe of device i returned, as the task passed it to     *)
(* savePowerStatus before the insert could throw                              *)
ProbedOnline(i) == probes[i].saveArgs.isOnline

(* C13: when savePowerStatus threw for a device, the summary is a success,    *)
(* its entry for that device carries the isOnline the probe returned, and so  *)
(* does the entry of every other device.                                      *)
C13_SaveFailureKeepsVerdict ==
    (cycle = "responded" /\ \E i \in DeviceIdx : probes[i].saveThrew) =>
        /\ summary.success
        /\ \A j \in DeviceIdx :
               /\ probes[j].settled = "resolved"
               /\ summary.results[j].isOnline = ProbedOnline(j)
               /\ summary.results[j].deviceId = getDevices[j].id

(* C13 witness: the insert threw for a device the probe found online, and the *)
(* summary reports it online next to a device whose insert succeeded.         *)
C13_Witness ==
    /\ cycle = "responded"
    /\ \E i, j \in DeviceIdx :
           /\ probes[i].saveThrew /\ ProbedOnline(i)
           /\ summary.results[i].isOnline
           /\ ~probes[j].saveThrew /\ ~summary.results[j].isOnline

(* C14: in the summary devicesChecked is the number of configured devices,    *)
(* online the number of entries with isOnline true, offline the number with   *)
(* isOnline false, and online + offline = devicesChecked.                     *)
C14_SummaryCounts ==
    cycle = "responded" =>
        /\ summary.devicesChecked = Len(DEVICE_IDS.entries)
        /\ DOMAIN summary.results = 1..Len(DEVICE_IDS.entries)
        /\ summary.online =
               Cardinality({i \in DeviceIdx : summary.results[i].isOnline})
        /\ summary.offline =
               Cardinality({i \in DeviceIdx : ~summary.results[i].isOnline})
        /\ summary.online + summary.offline = summary.devicesChecked

(* C14 witness: one device answered its status call with cur_power 235, the   *)
(* other timed out: devicesChecked 2, online 1, offline 1.                    *)
C14_Witness ==
    /\ cycle = "responded"
    /\ summary.devicesChecked = 2 /\ summary.online = 1 /\ summary.offline = 1
    /\ \E i, j \in DeviceIdx :
           /\ summary.results[i].isOnline
           /\ summary.results[i].powerConsumptionW = <<235, 10>>
           /\ probes[j].result.error = "Timeout"
           /\ ~summary.results[j].isOnline

(* C15: a task calls savePowerStatus at most once, and in a completed cycle   *)
(* every configured device's task has called it exactly once, whether the     *)
(* call threw or not and whether the probe reported an error or not.          *)
C15_OneSavePerDevice ==
    /\ \A i \in DeviceIdx :
           /\ probes[i].saveCalls <= 1
           /\ probes[i].saveCalls = 1 <=> probes[i].pc \in {"saveWait", "done"}
    /\ cycle = "responded" =>
           /\ DOMAIN probes = 1..Len(DEVICE_IDS.entries)
           /\ \A i \in DeviceIdx : probes[i].saveCalls = 1

(* C15 witness: a cycle completed in which the insert threw for a device and  *)
(* the probe of a device reported an error; each was saved once.              *)
C15_Witness ==
    /\ cycle = "responded"
    /\ \E i, j \in DeviceIdx :
           /\ probes[i].saveThrew /\ probes[i].saveCalls = 1
           /\ probes[j].result.error # NullStr /\ probes[j].saveCalls = 1

(* C16 as claimed: POST /monitor answers with the top-level failure (500,     *)
(* success false) exactly when device enumeration fails, a configuration      *)
(* without devices counting as a failed enumeration.                          *)
C16_FailureIffNoDeviceList ==
    cycle = "responded" =>
        ((summary.status = 500 /\ ~summary.success)
             <=> (getDevicesThrows \/ DeviceIdx = {}))

(* the status call of device i's probe is answered in this step, and the      *)
(* answer carries the rate-limit code                                         *)
StatusRateLimited(i) ==
    /\ probes[i].phase = "status"
    /\ Len(probes'[i].statusResps) = Len(probes[i].statusResps) + 1
    /\ probes'[i].statusResps[Len(probes'[i].statusResps)] = "rate"

(* C17: when a status call is answered with the rate-limit code, on the first *)
(* attempt or on the retry after an auth rejection, the step that receives    *)
(* the answer sends no further status call, requests no token and leaves the  *)
(* cache as it is, and the probe returns in that step an Observation with     *)
(* isOnline false and an error.                                               *)
C17_RateLimitIsTerminal ==
    [][\A i \in DeviceIdx :
           StatusRateLimited(i) =>
               /\ probes'[i].statusCalls = probes[i].statusCalls
               /\ probes'[i].pc = "saveWait"
               /\ cacheVars' = cacheVars
               /\ probes'[i].settled = "resolved"
               /\ ~probes'[i].result.isOnline
               /\ probes'[i].result.error # NullStr
               /\ probes'[i].result.error # ""]_vars

(* C17 witness: the first status call was refused for its token, the retry    *)
(* was answered with the rate-limit envelope, and the probe returned offline  *)
(* after those two calls.                                                     *)
C17_Witness ==
    \E i \in DeviceIdx :
        /\ probes[i].statusResps = <<"auth", "rate">>
        /\ probes[i].statusCalls = 2
        /\ Settled(i)
        /\ ~probes[i].result.isOnline
        /\ probes[i].result.error = "Rate limit exceeded"

(* the probe of device i returned after a first status call refused for its   *)
(* token and a retried status call answered with a well-formed success        *)
RetriedStatusSucceeded(i) ==
    Settled(i) /\ probes[i].statusResps = <<"auth", "ok">>

(* the token requests device i's probe has sent since its start *)
TokenRequests(i) == probes[i].tokenReqs.meta + probes[i].tokenReqs.status

(* C18 as claimed: a probe whose first status call was refused for its token  *)
(* and whose retry succeeded returns a success, has made two status calls and *)
(* has sent at most two token requests since its start.                       *)
C18_RetrySuccessWithTwoTokenRequests ==
    \A i \in DeviceIdx :
        RetriedStatusSucceeded(i) =>
            /\ probes[i].result.error = NullStr
            /\ probes[i].statusCalls = 2
            /\ TokenRequests(i) <= 2

(* C18 amended: such a probe returns a success, has made two status calls and *)
(* has sent at most two token requests for its status request; its metadata   *)
(* request can have sent two more, at most four since the probe's start.      *)
C18_RetrySuccessWithTwoStatusTokenRequests ==
    \A i \in DeviceIdx :
        RetriedStatusSucceeded(i) =>
            /\ probes[i].result.error = NullStr
            /\ probes[i].statusCalls = 2
            /\ probes[i].tokenReqs.status <= 2
            /\ probes[i].tokenReqs.meta <= 2
            /\ TokenRequests(i) <= 4

(* C18 witness: the metadata request and the status request each had its      *)
(* token refused once, four token requests in all, and the probe returned a   *)
(* success with the power read from the retried status call.                  *)
C18_Witness ==
    \E i \in DeviceIdx :
        /\ RetriedStatusSucceeded(i)
        /\ probes[i].tokenReqs = [meta |-> 2, status |-> 2]
        /\ probes[i].result.error = NullStr
        /\ probes[i].result.powerConsumptionW = <<235, 10>>

(* device i's probe has been called and waits for the provider *)
ProbeWaits(i) == probes[i].pc \in {"tokenWait", "reqWait"}

(* device i's probe has returned its Observation *)
ProbeReturned(i) == Settled(i) /\ probes[i].settled = "resolved"

(* The provider answers a probe p can still be waiting for before it returns: *)
(* per attempt of a request the token response and the response to the        *)
(* request itself, for the attempts the request has left and, during the      *)
(* metadata request, for the whole status request after it.                   *)
AnswersPerRequest == 2 * (MAX_RETRIES + 1)
AnswersLeft(p) ==
    IF p.pc \in {"tokenWait", "reqWait"}
    THEN (IF p.pc = "tokenWait" THEN 2 ELSE 1)
         + 2 * (MAX_RETRIES - p.retryCount)
         + (IF p.phase = "meta" THEN AnswersPerRequest ELSE 0)
    ELSE 0

(* C19: a probe waits for nothing but the provider's answer to its own call   *)
(* (TokenResponseOk, TokenResponseFail, RequestResponse and RequestError are  *)
(* guarded by the probe's own position only, no lock is involved), and every  *)
(* answer it gets lowers the number of answers it can still wait for, which   *)
(* is never negative and at most 2 * AnswersPerRequest when the probe starts: *)
(* if every call is answered or times out, the probe returns its Observation  *)
(* after at most that many provider calls.  A step of the other probe leaves  *)
(* the number as it is.                                                       *)
C19_ProbeReturnsAfterBoundedCalls ==
    [][\A i \in DeviceIdx :
           /\ AnswersLeft(probes[i]) \in 0..(2 * AnswersPerRequest)
           /\ probes[i].retryCount \in 0..MAX_RETRIES
           /\ (ProbeWaits(i) /\ probes'[i] # probes[i]) =>
                  /\ AnswersLeft(probes'[i]) < AnswersLeft(probes[i])
                  /\ \A j \in DeviceIdx \ {i} : probes'[j] = probes[j]
                  /\ AnswersLeft(probes'[i]) = 0 => ProbeReturned(i)'
           /\ (ProbeWaits(i) /\ probes'[i] = probes[i]) =>
                  AnswersLeft(probes'[i]) = AnswersLeft(probes[i])]_vars

(* C19 witness: a probe returned after both its requests were retried, eight  *)
(* provider calls, while the other probe, whose first token request had       *)
(* emptied the cache by failing, was still waiting for the provider.          *)
C19_Witness ==
    \E i, j \in DeviceIdx :
        /\ ProbeReturned(i)
        /\ probes[i].retryCount = MAX_RETRIES
        /\ probes[i].statusCalls = MAX_RETRIES + 1
        /\ ProbeWaits(j)
        /\ accessToken = NullToken

(* The arguments of the signRequest call for the request device i's task has  *)
(* in flight, and the timestamp the call took: the token request is signed    *)
(* without a token argument, the metadata and the status request with the     *)
(* token getAccessToken returned.                                             *)
SignInputs(i) ==
    LET p == probes[i]
    IN  [path |-> IF p.pc = "tokenWait" THEN TokenPath
                  ELSE IF p.phase = "meta" THEN DevicePath(p.deviceId)
                  ELSE StatusPath(p.deviceId),
         method |-> "GET",
         query |-> IF p.pc = "tokenWait" THEN TokenQuery ELSE NoQuery,
         body |-> EmptyBody,
         token |-> IF p.pc = "tokenWait" THEN NullToken ELSE p.token,
         t |-> p.signed.t]

(* the signature as a function of the arguments, the timestamp and the        *)
(* credential pair alone, an absent token counting as the empty text          *)
SignatureOf(in) ==
    HmacSha256Hex(ACCESS_KEY,
        <<ACCESS_ID>> \o TokenStr(in.token) \o Digits(in.t) \o
        stringToSign(in.path, in.method, in.query, in.body))

(* C20: the signature of every request in flight is the function SignatureOf  *)
(* of the signRequest call's arguments, its timestamp and the credentials,    *)
(* whatever the cache held when the call was made; two requests signed from   *)
(* the same arguments at the same time carry the same signature, token        *)
(* requests, which are signed without a token argument, included.             *)
C20_SignatureOfInputsOnly ==
    \A i \in DeviceIdx :
        ProbeWaits(i) =>
            /\ probes[i].signed.sign = SignatureOf(SignInputs(i))
            /\ \A j \in DeviceIdx :
                   (ProbeWaits(j) /\ SignInputs(j) = SignInputs(i)) =>
                       probes[j].signed = probes[i].signed

(* C20 witness: two token requests are in flight with the same signature; one *)
(* was signed when the process had never held a token, the other after a      *)
(* token had been stored and had expired, its expiry still in the cache.      *)
C20_Witness ==
    \E i, j \in DeviceIdx :
        /\ probes[i].pc = "tokenWait" /\ probes[j].pc = "tokenWait"
        /\ probes[i].phase = "meta" /\ probes[i].retryCount = 0
        /\ probes[j].phase = "status"
        /\ probes[i].signed = probes[j].signed
        /\ accessToken = NullToken
        /\ tokenExpiryTime # NullTime

(* what an answer makes of a task: whether its probe has returned, and what *)
OutcomeOf(st) ==
    [settled |-> st.p.settled, returned |-> st.p.pc = "saveWait",
     result |-> st.p.result, saveArgs |-> st.p.saveArgs,
     deviceInfo |-> st.p.deviceInfo, phase |-> st.p.phase]

(* For the call device i's task has in flight: what every answer the provider *)
(* can give would make of the task if the cache were g.                       *)
OwnOutcomes(i, g) ==
    LET p == probes[i]
        device == getDevices[i]
    IN  [onResponse |->
            IF p.pc = "reqWait"
            THEN {<<response, OutcomeOf(makeTuyaRequestOnResponse(device, g, p, now,
                                 response))>> :
                     response \in CycleResponsesFor(p.phase)}
            ELSE {},
         onError |->
            IF p.pc = "reqWait"
            THEN {<<err, OutcomeOf(makeTuyaRequestCatch(device, g, p, now, err))>> :
                     err \in CycleRequestErrors}
            ELSE {},
         onTokenFailure |->
            IF p.pc = "tokenWait"
            THEN {OutcomeOf(makeTuyaRequestCatch(device, getAccessTokenFailure(g), p,
                      now, TokenFetchError))}
            ELSE {}]

(* C11: during a cycle a step changes the task of one device only, so that a  *)
(* task changes only when its own call is answered: no timeout, provider      *)
(* error, rate limit, auth rejection or failed token request of another        *)
(* device's probe settles it, rejects it or moves it.  What an answer to its  *)
(* own call makes of it, returned or not and with which Observation, is the   *)
(* same whatever the other device's probe has left in the cache, and its      *)
(* probe never rejects.                                                       *)
C11_ObservationFromOwnAnswers ==
    [][\A i \in DeviceIdx :
           /\ (cycle = "running" /\ probes'[i] # probes[i]) =>
                  /\ ProbeWaits(i) \/ probes[i].pc = "saveWait"
                  /\ \A j \in DeviceIdx \ {i} : probes'[j] = probes[j]
           /\ ProbeWaits(i) => OwnOutcomes(i, G) = OwnOutcomes(i, EmptyCache)
           /\ probes'[i].settled # "rejected"]_vars

(* C11 witness: one device's probe returned offline because its token request *)
(* for the status call failed, which emptied the cache; the other device's    *)
(* probe, which then had to request a token itself, returned online.          *)
C11_Witness ==
    \E i, j \in DeviceIdx :
        /\ ProbeReturned(j) /\ probes[j].statusTokenFailed
        /\ ~probes[j].result.isOnline
        /\ ProbeReturned(i) /\ probes[i].result.isOnline
        /\ probes[i].result.error = NullStr
        /\ probes[i].token # NullToken
        /\ accessToken = probes[i].token

(* the arguments in which two signRequest calls differ *)
ChangedInputs(a, b) ==
    {f \in {"path", "method", "query", "body", "token", "t"} : a[f] # b[f]}

(* the payload a signRequest call signed *)
SignedPayload(call) == call.out.sign.text

(* C21 as claimed: two signRequest calls that differ in exactly one of path,  *)
(* method, query, body, token and timestamp sign different payloads.          *)
C21_AnySingleChangeChangesPayload ==
    Len(signCalls) = 2 =>
        (Cardinality(ChangedInputs(signCalls[1].in, signCalls[2].in)) = 1 =>
             SignedPayload(signCalls[1]) # SignedPayload(signCalls[2]))

(* no key and no value of the query holds a separator of the canonical query *)
PlainQuery(query) ==
    \A k \in DOMAIN query : \A h \in 1..2 : \A n \in DOMAIN query[k][h] :
        query[k][h][n] \notin {"=", "&"}

(* the entries of a query, whatever their order *)
EntriesOf(query) == {query[k] : k \in DOMAIN query}

(* C21 amended: a change of the path, the method, the timestamp or the token  *)
(* alone changes the payload; a change of the body alone changes it exactly   *)
(* when the method is POST or PUT; a change of the query alone changes it     *)
(* whenever the two queries differ in their entries and no key or value       *)
(* holds '=' or '&'.                                                          *)
C21_SingleChangeChangesPayloadUnlessHidden ==
    Len(signCalls) = 2 =>
        LET a == signCalls[1].in
            b == signCalls[2].in
            differ == SignedPayload(signCalls[1]) # SignedPayload(signCalls[2])
        IN  /\ \A f \in {"path", "method", "token", "t"} :
                   ChangedInputs(a, b) = {f} => differ
            /\ ChangedInputs(a, b) = {"body"} =>
                   (differ <=> a.method \in {"POST", "PUT"})
            /\ (/\ ChangedInputs(a, b) = {"query"}
                /\ PlainQuery(a.query) /\ PlainQuery(b.query)
                /\ EntriesOf(a.query) # EntriesOf(b.query)) => differ

(* C21 witness: two POST calls that differ in the body alone signed different *)
(* payloads.                                                                  *)
C21_Witness ==
    /\ Len(signCalls) = 2
    /\ ChangedInputs(signCalls[1].in, signCalls[2].in) = {"body"}
    /\ signCalls[1].in.method = "POST"
    /\ SignedPayload(signCalls[1]) # SignedPayload(signCalls[2])

(* a token request the probe of device i made has failed *)
SomeTokenRequestFailed(i) == probes[i].metaTokenFailed \/ probes[i].statusTokenFailed

(* the handler answered with a success summary that has an entry per device *)
SuccessSummaryForAll ==
    /\ summary.success /\ summary.status = 200
    /\ Len(summary.results) = Len(getDevices)
    /\ \A i \in DeviceIdx : summary.results[i].deviceId = getDevices[i].id

(* C22 as claimed: a probe during which any token request failed returns an   *)
(* Observation with isOnline = false and an error, and the cycle answers with *)
(* a success summary that has an entry for every device.                      *)
C22_AnyTokenFailureGivesOffline ==
    /\ \A i \in DeviceIdx :
           (Settled(i) /\ SomeTokenRequestFailed(i)) =>
               /\ probes[i].settled = "resolved"
               /\ ~probes[i].result.isOnline
               /\ probes[i].result.error # NullStr
    /\ (cycle = "responded" /\ \E i \in DeviceIdx : SomeTokenRequestFailed(i)) =>
           SuccessSummaryForAll

(* C22 amended: a probe during which a token request made for the status call *)
(* failed returns an Observation with isOnline = false and the token error,   *)
(* without a status call after the failure; a token request that failed for  *)
(* the metadata call leaves the verdict to the status call; in both cases the *)
(* cycle answers with a success summary that has an entry for every device.   *)
C22_StatusTokenFailureGivesOffline ==
    /\ \A i \in DeviceIdx :
           (Settled(i) /\ SomeTokenRequestFailed(i)) =>
               /\ probes[i].settled = "resolved"
               /\ probes[i].statusTokenFailed =>
                      /\ ~probes[i].result.isOnline
                      /\ probes[i].result.error = TokenFetchError.message
                      /\ probes[i].result.responseTimeMs = NullTime
               /\ probes[i].result.isOnline =>
                      /\ probes[i].metaTokenFailed
                      /\ probes[i].statusResps # <<>>
                      /\ probes[i].statusResps[Len(probes[i].statusResps)] = "ok"
    /\ (cycle = "responded" /\ \E i \in DeviceIdx : SomeTokenRequestFailed(i)) =>
           SuccessSummaryForAll

(* C22 witness: the cycle answered after a probe whose token request for the  *)
(* status call failed.                                                        *)
C22_Witness ==
    /\ cycle = "responded"
    /\ \E i \in DeviceIdx :
           /\ probes[i].statusTokenFailed
           /\ ~summary.results[i].isOnline

(* this step answers the first status call of device i's probe with an auth   *)
(* rejection: makeTuyaRequest calls itself for the retry                      *)
StatusCallAuthRejected(i) ==
    /\ probes[i].pc = "reqWait" /\ probes[i].phase = "status"
    /\ probes[i].retryCount = 0
    /\ probes'[i].phase = "status" /\ probes'[i].retryCount = 1

(* this step sends the retried status call of device i's probe *)
RetriedStatusCallSent(i) ==
    /\ probes[i].phase = "status" /\ probes[i].retryCount = 1
    /\ probes[i].pc = "tokenWait" /\ probes'[i].pc = "reqWait"

(* C23: the step that receives the auth rejection of a status call leaves the *)
(* cache Empty and the probe waiting for a token request of its own, the      *)
(* retry not sent; the retried call is sent by the step that receives the     *)
(* answer to that token request, with the token of that answer, which is not  *)
(* the token of the rejected call, whatever the other probe did meanwhile.    *)
C23_RetryCarriesTokenFetchedAfterRejection ==
    [][\A i \in DeviceIdx :
          /\ StatusCallAuthRejected(i) =>
                 /\ accessToken' = NullToken /\ tokenExpiryTime' = NullTime
                 /\ probes'[i].pc = "tokenWait"
                 /\ probes'[i].statusCalls = probes[i].statusCalls
                 /\ probes'[i].token = probes[i].token
          /\ RetriedStatusCallSent(i) =>
                 /\ probes'[i].token = FreshToken
                 /\ probes'[i].token # probes[i].token
                 /\ probes'[i].token = accessToken'
                 /\ probes'[i].statusCalls = 2]_vars

(* C23 witness: the retried status call of one probe is in flight with a      *)
(* token other than the one the other probe's call in flight carries.         *)
C23_Witness ==
    \E i, j \in DeviceIdx :
        /\ i # j
        /\ probes[i].pc = "reqWait" /\ probes[i].phase = "status"
        /\ probes[i].retryCount = 1 /\ probes[i].statusCalls = 2
        /\ probes[j].pc = "reqWait" /\ probes[j].token # probes[i].token

(* this step ends the metadata call of device i's probe *)
MetadataCallEnds(i) == probes[i].phase = "meta" /\ probes'[i].phase = "status"

(* the last answer to a status call of device i's probe was a success         *)
(* response whose result the code can read: no list, or a list of pairs       *)
StatusCallSucceeded(i) ==
    /\ probes[i].statusResps # <<>>
    /\ probes[i].statusResps[Len(probes[i].statusResps)] = "ok"

(* the probe that got no metadata reports online exactly when its status call *)
(* succeeded                                                                  *)
VerdictWithoutMetadata(i) ==
    (Settled(i) /\ probes[i].deviceInfo = "null") =>
        /\ probes[i].settled = "resolved"
        /\ probes[i].result.isOnline <=>
               (StatusCallSucceeded(i) /\ ~probes[i].statusTokenFailed)

C25_OfflineOnlyOnExplicitFalse ==
    \A i \in DeviceIdx :
        (Settled(i) /\ StatusCallSucceeded(i)) =>
            /\ probes[i].result.error = NullStr
            /\ ~probes[i].result.isOnline <=> probes[i].deviceInfo = "online:false"
            /\ probes[i].deviceInfo \in {"online:true", "online:missing",
                                          "online:nonbool", "undefined", "null"}
                   => probes[i].result.isOnline

(* C25 witness: a status call succeeded for a device whose metadata says      *)
(* online = false, and the Observation is offline.                            *)
C25_Witness ==
    \E i \in DeviceIdx :
        /\ Settled(i) /\ StatusCallSucceeded(i)
        /\ probes[i].deviceInfo = "online:false"
        /\ ~probes[i].result.isOnline

(* the raw value the last successful status response of device i's probe      *)
(* reports under a telemetry code, Null when the list has no such code        *)
Reported(i, code) ==
    IF probes[i].statusResult.shape = "array"
    THEN statusMapGet(probes[i].statusResult.items, code)
    ELSE Null

(* C26 as claimed: after a successful status call that reports cur_power = v  *)
(* and cur_voltage = u, the Observation has powerConsumptionW = v/10 and      *)
(* voltageV = u/10, and each is null only when its code is absent.            *)
C26_TelemetryIsRawOverTen ==
    \A i \in DeviceIdx :
        (Settled(i) /\ StatusCallSucceeded(i)) =>
            /\ Reported(i, "cur_power") # Null =>
                   probes[i].result.powerConsumptionW = Div10(Reported(i, "cur_power"))
            /\ Reported(i, "cur_voltage") # Null =>
                   probes[i].result.voltageV = Div10(Reported(i, "cur_voltage"))
            /\ probes[i].result.powerConsumptionW = Null =>
                   Reported(i, "cur_power") = Null
            /\ probes[i].result.voltageV = Null =>
                   Reported(i, "cur_voltage") = Null

(* C27: an Observation that checkDeviceAvailability returned has a            *)
(* responseTimeMs exactly when its error is null, which is exactly when the   *)
(* status call ended with a success response; the Observation of a failure    *)
(* envelope, of a network error or timeout and of a failed token request has  *)
(* responseTimeMs = null.                                                     *)
C27_ResponseTimeIffNoError ==
    \A i \in DeviceIdx :
        ProbeReturned(i) =>
            /\ probes[i].result.responseTimeMs # NullTime <=>
                   probes[i].result.error = NullStr
            /\ probes[i].result.error = NullStr <=> StatusCallSucceeded(i)
            /\ probes[i].result.responseTimeMs # NullTime =>
                   probes[i].result.responseTimeMs >= 0
            /\ (probes[i].statusTokenFailed \/ ~StatusCallSucceeded(i)) =>
                   probes[i].result.responseTimeMs = NullTime

(* C27 witness: a probe returned the Observation of a timed-out status call,  *)
(* without a response time.                                                   *)
C27_Witness ==
    \E i \in DeviceIdx :
        /\ ProbeReturned(i)
        /\ probes[i].result.error = "Timeout"
        /\ probes[i].result.responseTimeMs = NullTime

(* C28 as claimed: the responseTimeMs of a successful Observation is the time *)
(* from the call of makeTuyaRequest for the status to its success response;   *)
(* the time the metadata call and its token request took is not in it.        *)
C28_ResponseTimeIsStatusCallTime ==
    \A i \in DeviceIdx :
        (ProbeReturned(i) /\ probes[i].result.error = NullStr) =>
            probes[i].result.responseTimeMs =
                probes[i].statusEndTime - probes[i].statusStartTime

(* the probe of device i returned after its last status call failed *)
StatusCallFailed(i) ==
    /\ ProbeReturned(i) /\ ~probes[i].statusTokenFailed
    /\ probes[i].statusFailure.kind # "none"

(* C29 as claimed: after a failed status call the Observation is offline, a   *)
(* timeout (ECONNABORTED) reads 'Timeout', a DNS failure or refused           *)
(* connection reads 'Connection error', and a success=false envelope without  *)
(* an auth code reads the envelope's msg.                                     *)
C29_ErrorIsCauseOrProviderMsg ==
    \A i \in DeviceIdx :
        StatusCallFailed(i) =>
            LET f == probes[i].statusFailure
            IN  /\ ~probes[i].result.isOnline
                /\ (f.kind = "error" /\ f.code = "ECONNABORTED") =>
                       probes[i].result.error = "Timeout"
                /\ (f.kind = "error" /\ f.code \in {"ENOTFOUND", "ECONNREFUSED"}) =>
                       probes[i].result.error = "Connection error"
                /\ (f.kind = "envelope" /\ f.envCode \notin AuthCodes) =>
                       probes[i].result.error = f.msg

(* C29 amended: as claimed for the network errors; a rate-limit envelope      *)
(* reads 'Rate limit exceeded'; any other success=false envelope reads its    *)
(* msg when that is a non-empty string and 'Unknown API error' otherwise, as  *)
(* does a response without body; any other thrown error reads its message.    *)
C29_ErrorIsClassifiedByCause ==
    \A i \in DeviceIdx :
        StatusCallFailed(i) =>
            LET f == probes[i].statusFailure
            IN  /\ ~probes[i].result.isOnline
                /\ probes[i].result.error =
                       IF f.kind = "error"
                       THEN IF f.code = "ECONNABORTED" THEN "Timeout"
                            ELSE IF f.code \in {"ENOTFOUND", "ECONNREFUSED"}
                            THEN "Connection error"
                            ELSE f.msg
                       ELSE IF f.kind = "envelope" /\ f.envCode = RateLimitCode
                       THEN "Rate limit exceeded"
                       ELSE IF f.kind = "envelope" /\ f.msg \notin {NullStr, ""}
                       THEN f.msg
                       ELSE "Unknown API error"

(* C29 witness: a probe returned 'Connection error' after its status call was *)
(* refused.                                                                   *)
C29_Witness ==
    \E i \in DeviceIdx :
        /\ StatusCallFailed(i)
        /\ probes[i].statusFailure.code = "ECONNREFUSED"
        /\ probes[i].result.error = "Connection error"

(* C30 as claimed: savePowerStatus is not called for any device, and no row   *)
(* is in the sink, while the probe of some device of the cycle has yet to     *)
(* return.                                                                    *)
C30_SavesAfterEveryProbe ==
    (\E j \in DeviceIdx : ProbeWaits(j)) =>
        /\ \A i \in DeviceIdx : probes[i].saveCalls = 0
        /\ power_status = {}

(* C30 amended: a task calls savePowerStatus in the step in which its own     *)
(* probe settles, with that probe's verdict and whatever the other tasks are  *)
(* doing; every row in the sink is the row of a device whose probe has        *)
(* settled; the summary is sent after every task's save.                      *)
C30_SaveFollowsOwnProbe ==
    [][/\ \A i \in DeviceIdx :
             probes'[i].saveCalls > probes[i].saveCalls =>
                 /\ ProbeWaits(i) /\ Settled(i)'
                 /\ probes'[i].saveCalls = 1
                 /\ probes'[i].saveArgs.isOnline = probes'[i].result.isOnline
                 /\ \A j \in DeviceIdx \ {i} : probes'[j] = probes[j]
       /\ \A row \in power_status' :
             \E i \in DeviceIdx :
                 /\ Settled(i)' /\ probes'[i].pc = "done"
                 /\ row.device_id = probes'[i].deviceId
       /\ cycle' = "responded" =>
             \A i \in DeviceIdx : getDevicesThrows \/ probes'[i].pc = "done"]_vars

(* C30 witness: a row of one device is in the sink while the probe of the     *)
(* other device still waits for an answer.                                    *)
C30_Witness ==
    \E i, j \in DeviceIdx :
        /\ probes[i].pc = "done" /\ ~probes[i].saveThrew
        /\ \E row \in power_status : row.device_id = probes[i].deviceId
        /\ ProbeWaits(j)

(* this step processes the successful answer to the token request of device   *)
(* i's task                                                                   *)
TokenFetchSucceeds(i) == probes[i].pc = "tokenWait" /\ probes'[i].pc = "reqWait"

(* C31 as claimed: the step that processes a successful token response sets   *)
(* tokenExpiryTime to the time of that step plus the reported expire_time     *)
(* times 1000 minus 300000, for every reported expire_time >= 0.              *)
C31_ExpiryIsNowPlusLifetimeMinusMargin ==
    [][\A i \in DeviceIdx :
          TokenFetchSucceeds(i) =>
              tokenExpiryTime' = now + storedLifetime' * 1000 - 300000]_vars

(* C32 as claimed: the timeout of the status call of a probe is longer than   *)
(* the timeout of the metadata call of that probe.                            *)
C32_StatusDeadlineLonger ==
    \A i \in DeviceIdx :
        (probes[i].timeoutMs.meta # 0 /\ probes[i].timeoutMs.status # 0) =>
            probes[i].timeoutMs.status > probes[i].timeoutMs.meta

(* C32 amended: the metadata call and the status call of a probe are sent     *)
(* with the same timeout, 15000 ms; the shorter one, 10000 ms, is that of the *)
(* token requests.                                                            *)
C32_SameDeadlineForBothCalls ==
    \A i \in DeviceIdx :
        /\ probes[i].timeoutMs.meta \in {0, RequestTimeoutMs}
        /\ probes[i].timeoutMs.status \in {0, RequestTimeoutMs}
        /\ probes[i].timeoutMs.token \in {0, TokenTimeoutMs}
        /\ probes[i].metaCalls > 0 => probes[i].timeoutMs.meta = RequestTimeoutMs
        /\ probes[i].statusCalls > 0 => probes[i].timeoutMs.status = RequestTimeoutMs
        /\ TokenRequests(i) > 0 =>
               /\ probes[i].timeoutMs.token = TokenTimeoutMs
               /\ probes[i].timeoutMs.token < RequestTimeoutMs

(* C32 witness: a probe has sent its metadata call and its status call.       *)
C32_Witness ==
    \E i \in DeviceIdx :
        /\ probes[i].metaCalls > 0 /\ probes[i].statusCalls > 0
        /\ probes[i].timeoutMs.meta = probes[i].timeoutMs.status

(* this step answers a request of device i's probe with an auth rejection     *)
(* that makeTuyaRequest retries                                               *)
AuthRejectionRetried(i) ==
    /\ probes[i].pc = "reqWait"
    /\ probes'[i].phase = probes[i].phase
    /\ probes'[i].retryCount = probes[i].retryCount + 1

(* this step answers a status call of device i's probe with an auth rejection *)
StatusAuthRejection(i) ==
    /\ probes[i].pc = "reqWait" /\ probes[i].phase = "status"
    /\ Len(probes'[i].statusResps) = Len(probes[i].statusResps) + 1
    /\ probes'[i].statusResps[Len(probes'[i].statusResps)] = "auth"

C34_BoundedCallsPerProbe ==
    \A i \in DeviceIdx :
        LET p == probes[i]
            attempts == p.retryCount + 1
        IN  /\ p.retryCount <= MAX_RETRIES
            /\ p.metaCalls <= 2 /\ p.statusCalls <= 2
            /\ p.tokenReqs.meta <= 2 /\ p.tokenReqs.status <= 2
            /\ TokenRequests(i) <= 4
            /\ (p.pc # "idle" /\ p.phase = "meta") =>
                   /\ p.metaCalls <= attempts /\ p.tokenReqs.meta <= attempts
                   /\ p.statusCalls = 0 /\ p.tokenReqs.status = 0
            /\ (p.pc # "idle" /\ p.phase = "status") =>
                   p.statusCalls <= attempts /\ p.tokenReqs.status <= attempts

(* C34 witness: a probe has returned after two metadata calls, two status     *)
(* calls and four token requests.                                             *)
C34_Witness ==
    \E i \in DeviceIdx :
        /\ ProbeReturned(i)
        /\ probes[i].metaCalls = 2 /\ probes[i].statusCalls = 2
        /\ TokenRequests(i) = 4

(* C35 as claimed: for every device whose save succeeded, the entry of the    *)
(* summary and the arguments of the savePowerStatus call agree on isOnline,   *)
(* responseTimeMs and powerConsumptionW.                                      *)
C35_SummaryAgreesWithSavedRecord ==
    (cycle = "responded" /\ ~getDevicesThrows) =>
        \A i \in DeviceIdx :
            ~probes[i].saveThrew =>
                /\ summary.results[i].isOnline = probes[i].saveArgs.isOnline
                /\ summary.results[i].responseTimeMs = probes[i].saveArgs.responseTimeMs
                /\ summary.results[i].powerConsumptionW =
                       probes[i].saveArgs.powerConsumptionW

(* C36: the results of a summary are one entry per configured device, in the  *)
(* order of getDevices(): entry i has the id and the name of device i and the *)
(* verdict of device i's probe, in whatever order the tasks finished.         *)
C36_OneEntryPerDeviceInOrder ==
    (cycle = "responded" /\ ~getDevicesThrows) =>
        /\ Len(summary.results) = Len(getDevices)
        /\ summary.devicesChecked = Len(getDevices)
        /\ \A i \in DeviceIdx :
               /\ summary.results[i].deviceId = getDevices[i].id
               /\ summary.results[i].deviceName = getDevices[i].name
               /\ summary.results[i].isOnline = probes[i].result.isOnline

(* C36 witness: a summary was sent whose first entry is offline and whose     *)
(* second is online, the second device having sent its last request with an   *)
(* older token than the first.                                                *)
C36_Witness ==
    /\ cycle = "responded"
    /\ Len(summary.results) = 2
    /\ ~summary.results[1].isOnline /\ summary.results[2].isOnline
    /\ probes[2].token # NullToken /\ probes[2].token < probes[1].token

(* C37: while GET /monitor runs, checkDeviceAvailability is called for every  *)
(* configured device, savePowerStatus is never called and the sink stays as   *)
(* it is; its answer carries one Observation per device; a step that changes  *)
(* the sink is the successful insert of a POST /monitor task.                 *)
C37_GetMonitorNeverSaves ==
    [][/\ cycle' = "runningGet" =>
             /\ power_status' = power_status
             /\ \A i \in DeviceIdx :
                    /\ probes'[i].handler = "GET"
                    /\ probes'[i].pc \in {"tokenWait", "reqWait", "done"}
                    /\ probes'[i].deviceId = getDevices[i].id
                    /\ probes'[i].saveCalls = 0
       /\ (cycle = "runningGet" /\ cycle' = "responded") =>
             /\ power_status' = power_status
             /\ summary'.success /\ Len(summary'.results) = Len(getDevices)
             /\ \A i \in DeviceIdx : summary'.results[i] = probes[i].result
       /\ power_status' # power_status =>
             /\ cycle = "running"
             /\ \E i \in DeviceIdx :
                    probes[i].handler = "POST" /\ probes[i].pc = "saveWait"]_vars

(* C37 witness: GET /monitor has answered with the device online while the    *)
(* sink holds an offline row of an earlier POST /monitor and nothing else.    *)
C37_Witness ==
    /\ cycle = "responded"
    /\ \E i \in DeviceIdx :
           /\ probes[i].handler = "GET" /\ probes[i].result.isOnline
           /\ summary.results[i].isOnline
    /\ power_status # {}
    /\ \A row \in power_status : row.is_online = 0

(* this step is the call of checkDeviceAvailability for device i *)
LegacyCallStarts(i) ==
    probes[i].pc \in {"idle", "done"} /\ probes'[i].pc \in {"tokenWait", "reqWait"}

(* C38: in src/tuya.js, a checkDeviceAvailability call that starts while a    *)
(* token is stored sends its status request with that token and no token      *)
(* request; the answer to a status request, an auth rejection included, ends  *)
(* the call without a retry and leaves the cache as it is, as does a failed   *)
(* token request; the only step that empties a cache holding a token is       *)
(* resetToken(), which touches no call.                                       *)
C38_LegacyTokenStaysCached ==
    [][/\ \A i \in DeviceIdx :
             /\ (LegacyCallStarts(i) /\ accessToken # NullToken) =>
                    /\ probes'[i].pc = "reqWait"
                    /\ probes'[i].token = accessToken
                    /\ TokenRequests(i)' = 0
                    /\ accessToken' = accessToken
             /\ (probes[i].pc = "reqWait" /\ probes'[i] # probes[i]) =>
                    /\ probes'[i].pc = "done"
                    /\ probes'[i].statusCalls = 1
                    /\ accessToken' = accessToken
             /\ (probes[i].pc = "tokenWait" /\ probes'[i].pc = "done") =>
                    accessToken' = accessToken
       /\ (accessToken # NullToken /\ accessToken' = NullToken) =>
             probes' = probes]_vars

(* C38 witness: a call returned the auth rejection of its status request and  *)
(* the token the request was made with is still cached.                       *)
C38_Witness ==
    \E i \in DeviceIdx :
        /\ probes[i].pc = "done"
        /\ probes[i].statusResps = <<"auth">>
        /\ probes[i].result.error = "token invalid"
        /\ accessToken # NullToken /\ accessToken = probes[i].token

====
